---- MODULE Spec2Model ----
(***************************************************************************)
(* Model of the address-translation and tree-search core of dump_btrfs:    *)
(* the chunk mapper (src/src/address.rs), the node decoder                 *)
(* (src/src/btrfs_node.rs) and the tree iterator (src/src/tree.rs).        *)
(*                                                                         *)
(* The specifications share the definitions:                               *)
(*   Spec      a BtrfsTreeIter is created over a tree and next() is called *)
(*             repeatedly;                                                 *)
(*   SpecAddr  load_virt_block and virtual_offset_to_physical are called   *)
(*             on a filesystem whose chunk tree must be searched;          *)
(*   SpecSb    load_sb and SysChunkIter (src/src/btrfs.rs) on one device;  *)
(*   SpecLoad  dump(paths) builds the handle from several devices;         *)
(*   SpecFile  typed and indexed access of a MappedFile                    *)
(*             (src/src/mapped_file.rs);                                   *)
(*   SpecPolicy  the iterator with every min_match and max_match;          *)
(*   SpecKey   cmp_key (src/src/tree.rs) on keys of every kind;            *)
(*   SpecRepair  the steps of the bitflip repair (src/examples/bitflip.rs) *)
(*             from the load of the corrupt block on.                      *)
(***************************************************************************)
EXTENDS Integers, Sequences, FiniteSets, TLC

VARIABLES
    fs,        \* FsInfo: devid_map, master_sb, bootstrap_chunks, fsid
    disk,      \* contents of the mapped devices: disk[devid][offset] is a block
    iter,      \* the BtrfsTreeIter
    yielded,   \* items returned by next() so far, in call order
    ret,       \* what the latest call of next() returned
    calls,     \* number of next() calls made
    lvb,       \* latest load_virt_block call: argument and result
    votp,      \* latest virtual_offset_to_physical call: argument and result
    lv,        \* latest load_virt::<T> call: argument, size of T and result
    paths,     \* the device files given to the loader: their superblocks
    sbret,     \* what load_sb returned for the first path
    sci,       \* a SysChunkIter and what its next() calls returned
    dumpret,   \* how dump(paths) ended, with the handle it built
    file,      \* a MappedFile: its length
    access,    \* latest at::<T> or index access of the file and its outcome
    keys,      \* three btrfs_disk_keys
    ord,       \* what cmp_key returned for pairs of them
    repair,    \* main of the bitflip example: its position and its locals
    media      \* the files main reads and writes

vars == <<fs, disk, iter, yielded, ret, calls, lvb, votp, lv,
          paths, sbret, sci, dumpret, file, access, keys, ord, repair, media>>
iterVars == <<iter, yielded, ret, calls>>
loadVars == <<paths, sbret, sci, dumpret>>
fileVars == <<file, access>>
keyVars == <<keys, ord>>
repairVars == <<repair, media>>

(***************************************************************************)
(* Bounds                                                                  *)
(***************************************************************************)
MaxItems == 3      \* leaf items in an iterated tree
MaxLevel == 2      \* level of the root of an iterated tree
ExtraCalls == 2    \* next() calls made after the iteration could have ended
MaxDepth == 3      \* nesting of load_virt_block calls that is followed

(***************************************************************************)
(* On-disk constants                                                       *)
(***************************************************************************)
NodeSize == 2
BTRFS_FIRST_CHUNK_TREE_OBJECTID == 256
MIN == 0
INODE_ITEM == 1
ROOT_ITEM == 132
DEV_ITEM == 216
CHUNK_ITEM == 228
MAX == 255
SizeofChunk == 48
SizeofStripe == 32
SizeofDevItem == 98

None == [kind |-> "none"]

(***************************************************************************)
(* Small helpers                                                           *)
(***************************************************************************)
RECURSIVE SumSeq(_)
SumSeq(s) == IF s = <<>> THEN 0 ELSE Head(s) + SumSeq(Tail(s))

PrefixSum(s, j) == SumSeq(SubSeq(s, 1, j))

Front(s) == SubSeq(s, 1, Len(s) - 1)

Last(s) == s[Len(s)]

(***************************************************************************)
(* Keys                                                                    *)
(***************************************************************************)
DiskKey(oid, ty, off) == [objectid |-> oid, item_type |-> ty, offset |-> off]

\* a comparison that looks at the offset before the item type
cmp_key_offset_first(left, right) ==
    IF left.objectid < right.objectid THEN "Less"
    ELSE IF left.objectid > right.objectid THEN "Greater"
    ELSE IF left.offset < right.offset THEN "Less"
    ELSE IF left.offset > right.offset THEN "Greater"
    ELSE IF left.item_type < right.item_type THEN "Less"
    ELSE IF left.item_type > right.item_type THEN "Greater"
    ELSE "Equal"

\* tree.rs cmp_key
cmp_key(left, right) ==
    IF left.objectid < right.objectid THEN "Less"
    ELSE IF left.objectid > right.objectid THEN "Greater"
    ELSE IF left.item_type < right.item_type THEN "Less"
    ELSE IF left.item_type > right.item_type THEN "Greater"
    ELSE IF left.offset < right.offset THEN "Less"
    ELSE IF left.offset > right.offset THEN "Greater"
    ELSE "Equal"

(***************************************************************************)
(* Results.  A call ends with a value, with an Err, or it aborts: a failed *)
(* assertion ("panic"), a loop that never exits ("hang"), or recursion     *)
(* deeper than MaxDepth ("overflow").                                      *)
(***************************************************************************)
Err(m) == [kind |-> "err", msg |-> m]
Panic(m) == [kind |-> "panic", msg |-> m]
Hang == [kind |-> "hang"]
Overflow == [kind |-> "overflow"]
Aborts == {"panic", "hang", "overflow"}

(***************************************************************************)
(* Mapped device (mapped_file.rs)                                          *)
(***************************************************************************)
\* MappedFile::slice: asserts offset + length <= len, then borrows the bytes
slice(dev, offset, length) ==
    IF offset + length <= dev.len
    THEN [kind |-> "ok", dev |-> dev.devid, off |-> offset, len |-> length]
    ELSE Panic("slice beyond end of file")

\* the tree block a slice of nodesize bytes at a block boundary shows
BlockAt(sl) == disk[sl.dev][sl.off]

(***************************************************************************)
(* Node decoder (btrfs_node.rs).  A node iterator borrows the block slice, *)
(* and has a cursor and the virtual address of the block.                  *)
(***************************************************************************)
block_as_internal_node(block, block_offset) ==
    [block |-> block, cur_item |-> 0, block_offset |-> block_offset]

block_as_leaf_node(block, block_offset) ==
    [block |-> block, cur_item |-> 0, block_offset |-> block_offset]

as_leaf_node(node) == block_as_leaf_node(node.block, node.block_offset)

header(node) == BlockAt(node.block)

\* BtrfsInternalNodeIter::peek
InternalPeek(node) ==
    IF node.cur_item >= header(node).nritems THEN None
    ELSE [kind |-> "some", val |-> header(node).entries[node.cur_item + 1]]

\* BtrfsLeafNodeIter::peek: (item, data, block_offset, cur_item)
LeafPeek(node) ==
    IF node.cur_item >= header(node).nritems THEN None
    ELSE LET e == header(node).entries[node.cur_item + 1]
         IN [kind |-> "some",
             val |-> [key |-> e.key, size |-> e.size, data |-> e.data,
                      block_offset |-> node.block_offset,
                      index |-> node.cur_item]]

\* Iterator::next of both node iterators: the cursor after a successful peek
Advance(node) == [node EXCEPT !.cur_item = @ + 1]

(***************************************************************************)
(* Chunk mapper and tree iterator.  load_virt_block searches the chunk     *)
(* tree with a BtrfsTreeIter, whose find_key and next load every block     *)
(* they visit with load_virt_block: the operators are mutually recursive.  *)
(* depth counts the load_virt_block calls that are in progress.  The       *)
(* value of a call is handed on as an argument of the operator that        *)
(* models the code after the call.                                         *)
(***************************************************************************)
RECURSIVE load_virt_block(_, _, _)
RECURSIVE FindKeyLoop(_, _, _, _, _)
RECURSIVE TreeNext(_, _, _)
RECURSIVE LeafScan(_, _, _)
RECURSIVE PopParents(_)
RECURSIVE DescendLeftmost(_, _, _, _)
RECURSIVE LvbLeafItems(_, _, _, _)
RECURSIVE VotpLeafItems(_, _, _, _, _)

\* btrfs_internal_node after `load_virt_block(fs, block_offset)?`
InternalNodeOf(block, block_offset) ==
    IF block.kind = "ok"
    THEN [kind |-> "ok",
          node |-> block_as_internal_node([dev |-> block.dev, off |-> block.off],
                                          block_offset)]
    ELSE block

\* btrfs_node.rs btrfs_internal_node
btrfs_internal_node(f, block_offset, depth) ==
    InternalNodeOf(load_virt_block(f, block_offset, depth), block_offset)

\* tree.rs BtrfsTreeIter::new
NewTreeIter(root, options) ==
    IF cmp_key(options.min_key, options.max_key) = "Greater"
    THEN Panic("min_key > max_key")
    ELSE [kind |-> "ok",
          it |-> [root |-> root, options |-> options, cur_leaf_node |-> None,
                  cur_leaf_index |-> 0, internal_node_stack |-> <<>>]]

RECURSIVE FindKeyChoiceEarly(_, _)
\* a scan that goes down at a key pointer as soon as the pointer after it is
\* not below min_key
FindKeyChoiceEarly(opts, internal_node) ==
    LET left_key == InternalPeek(internal_node)
        node == Advance(internal_node)
        right_key == InternalPeek(node)
        lk == left_key.val
        cmp_min == cmp_key(lk.key, opts.min_key)
        cmp_max == cmp_key(lk.key, opts.max_key)
        descend == [kind |-> "descend", node |-> node, blockptr |-> lk.blockptr]
    IN IF left_key.kind = "none" THEN [kind |-> "break"]
       ELSE IF cmp_min = "Greater"
       THEN IF cmp_max = "Greater" THEN None ELSE descend
       ELSE IF cmp_min = "Equal" THEN descend
       ELSE IF right_key.kind = "none" THEN descend
       ELSE IF cmp_key(right_key.val.key, opts.min_key) # "Less" THEN descend
       ELSE FindKeyChoiceEarly(opts, node)

RECURSIVE FindKeyChoice(_, _)
\* find_key, the inner `loop` over the key pointers of internal_node: where it
\* ends.  "descend" with the node as pushed and the pointer taken, "none" for
\* `return None`, "break" when the node is exhausted
FindKeyChoice(opts, internal_node) ==
    LET left_key == InternalPeek(internal_node)
        node == Advance(internal_node)
        right_key == InternalPeek(node)
        lk == left_key.val
        cmp_min == cmp_key(lk.key, opts.min_key)
        cmp_max == cmp_key(lk.key, opts.max_key)
        descend == [kind |-> "descend", node |-> node, blockptr |-> lk.blockptr]
    IN IF left_key.kind = "none" THEN [kind |-> "break"]
       ELSE IF cmp_min = "Greater"
       THEN IF cmp_max = "Greater" THEN None ELSE descend
       ELSE IF cmp_min = "Equal" THEN descend
       ELSE IF right_key.kind = "none" THEN descend
       ELSE IF cmp_key(right_key.val.key, opts.min_key) = "Greater" THEN descend
       ELSE FindKeyChoice(opts, node)

\* find_key after `btrfs_internal_node(self.fs, lk.blockptr).ok()?`
FindKeyChild(f, opts, child, node_stack, depth) ==
    IF child.kind = "ok" THEN FindKeyLoop(f, opts, child.node, node_stack, depth)
    ELSE IF child.kind \in Aborts THEN child
    ELSE None

\* find_key, after the inner loop
FindKeyStep(f, opts, choice, node_stack, depth) ==
    IF choice.kind = "descend"
    THEN FindKeyChild(f, opts, btrfs_internal_node(f, choice.blockptr, depth),
                      Append(node_stack, choice.node), depth)
    ELSE IF choice.kind = "break"
    THEN Hang     \* the outer while finds the same exhausted node again
    ELSE None

\* find_key, the outer `while internal_node.header().level != 0`
FindKeyLoop(f, opts, internal_node, node_stack, depth) ==
    IF header(internal_node).level # 0
    THEN FindKeyStep(f, opts, FindKeyChoice(opts, internal_node), node_stack, depth)
    ELSE [kind |-> "some", path |-> node_stack, leaf_node |-> as_leaf_node(internal_node)]

\* tree.rs BtrfsTreeIter::find_key
find_key(f, it, depth) ==
    FindKeyChild(f, it.options, btrfs_internal_node(f, it.root, depth), <<>>, depth)

\* a pop loop that hands the popped parent back with its cursor at the start
PopParentsRewind(stack) ==
    IF stack = <<>> THEN [stack |-> stack, subtree_start |-> None]
    ELSE [stack |-> Front(stack),
          subtree_start |-> [kind |-> "some",
                             val |-> [Last(stack) EXCEPT !.cur_item = 0]]]

\* next(), the `while !self.internal_node_stack.is_empty()` loop: the stack that
\* is left and the popped node that still has a child, if any
PopParents(stack) ==
    IF stack = <<>> THEN [stack |-> stack, subtree_start |-> None]
    ELSE IF InternalPeek(Last(stack)).kind = "none"
    THEN PopParents(Front(stack))
    ELSE [stack |-> Front(stack),
          subtree_start |-> [kind |-> "some", val |-> Last(stack)]]

\* next() after `btrfs_internal_node(self.fs, child.blockptr).ok()?`
DescendChild(f, it, next_node, depth) ==
    IF next_node.kind = "ok" THEN DescendLeftmost(f, it, next_node.node, depth)
    ELSE IF next_node.kind \in Aborts THEN [it |-> it, ret |-> next_node]
    ELSE [it |-> it, ret |-> None]

\* a descent that goes down through the second entry of a node that has one
DescendSecond(f, it, internal_node, depth) ==
    IF header(internal_node).level = 0
    THEN TreeNext(f, [it EXCEPT !.cur_leaf_node =
                                    [kind |-> "some", val |-> as_leaf_node(internal_node)],
                                !.cur_leaf_index = 0], depth)
    ELSE IF InternalPeek(internal_node).kind = "none"
    THEN [it |-> it, ret |-> None]
    ELSE IF InternalPeek(Advance(internal_node)).kind = "none"
    THEN DescendChild(f,
                      [it EXCEPT !.internal_node_stack = Append(@, Advance(internal_node))],
                      btrfs_internal_node(f, InternalPeek(internal_node).val.blockptr, depth),
                      depth)
    ELSE DescendChild(f,
                      [it EXCEPT !.internal_node_stack =
                                    Append(@, Advance(Advance(internal_node)))],
                      btrfs_internal_node(f,
                            InternalPeek(Advance(internal_node)).val.blockptr, depth),
                      depth)

\* next(), the descent `while internal_node.header().level != 0`, then self.next()
DescendLeftmost(f, it, internal_node, depth) ==
    IF header(internal_node).level = 0
    THEN TreeNext(f, [it EXCEPT !.cur_leaf_node =
                                    [kind |-> "some", val |-> as_leaf_node(internal_node)],
                                !.cur_leaf_index = 0], depth)
    ELSE IF InternalPeek(internal_node).kind = "none"
    THEN [it |-> it, ret |-> None]
    ELSE DescendChild(f,
                      [it EXCEPT !.internal_node_stack = Append(@, Advance(internal_node))],
                      btrfs_internal_node(f, InternalPeek(internal_node).val.blockptr, depth),
                      depth)

\* a next() that ends the iteration at the end of the first leaf it scanned
OpenParentNever(f, it, popped, depth) ==
    [it |-> it, ret |-> None]

\* a re-ascent that leaves the popped nodes on the stack
OpenParentKeepStack(f, it, popped, depth) ==
    IF popped.subtree_start.kind = "none"
    THEN [it |-> it, ret |-> None]
    ELSE DescendLeftmost(f, it, popped.subtree_start.val, depth)

\* next(), from "reached end of leaf nodes" on, with the outcome of the pop loop
OpenParent(f, it, popped, depth) ==
    IF popped.subtree_start.kind = "none"
    THEN [it |-> [it EXCEPT !.internal_node_stack = popped.stack], ret |-> None]
    ELSE DescendLeftmost(f, [it EXCEPT !.internal_node_stack = popped.stack],
                         popped.subtree_start.val, depth)

RECURSIVE LeafChoiceByPolicy(_, _)
\* a leaf loop that returns the item before min_key only when min_match is Less
LeafChoiceByPolicy(opts, ln) ==
    LET left_leaf == LeafPeek(ln)
        ln1 == Advance(ln)
        right_leaf == LeafPeek(ln1)
        ll == left_leaf.val
        cmp_min == cmp_key(ll.key, opts.min_key)
        cmp_max == cmp_key(ll.key, opts.max_key)
        some == [ln |-> ln1, ret |-> left_leaf]
    IN IF left_leaf.kind = "none" THEN [ln |-> ln, ret |-> [kind |-> "break"]]
       ELSE IF cmp_min = "Greater"
       THEN IF cmp_max = "Greater" THEN [ln |-> ln1, ret |-> None] ELSE some
       ELSE IF cmp_min = "Equal" THEN some
       ELSE IF opts.min_match # "Less" THEN LeafChoiceByPolicy(opts, ln1)
       ELSE IF right_leaf.kind = "none" THEN some
       ELSE IF cmp_key(right_leaf.val.key, opts.min_key) = "Greater" THEN some
       ELSE LeafChoiceByPolicy(opts, ln1)

RECURSIVE LeafChoice(_, _)
\* next(), the `loop` over the items of the current leaf: the leaf cursor it
\* leaves and how it ends, with `return Some(ll)`, `return None` or "break"
LeafChoice(opts, ln) ==
    LET left_leaf == LeafPeek(ln)
        ln1 == Advance(ln)
        right_leaf == LeafPeek(ln1)
        ll == left_leaf.val
        cmp_min == cmp_key(ll.key, opts.min_key)
        cmp_max == cmp_key(ll.key, opts.max_key)
        some == [ln |-> ln1, ret |-> left_leaf]
    IN IF left_leaf.kind = "none" THEN [ln |-> ln, ret |-> [kind |-> "break"]]
       ELSE IF cmp_min = "Greater"
       THEN IF cmp_max = "Greater" THEN [ln |-> ln1, ret |-> None] ELSE some
       ELSE IF cmp_min = "Equal" THEN some
       ELSE IF right_leaf.kind = "none" THEN some
       ELSE IF cmp_key(right_leaf.val.key, opts.min_key) = "Greater" THEN some
       ELSE LeafChoice(opts, ln1)

\* next(), after the loop over the current leaf
LeafStep(f, it, choice, depth) ==
    IF choice.ret.kind = "break"
    THEN OpenParent(f, it, PopParents(it.internal_node_stack), depth)
    ELSE [it |-> [it EXCEPT !.cur_leaf_node = [kind |-> "some", val |-> choice.ln]],
          ret |-> choice.ret]

\* next(), from `if let Some(ln) = self.cur_leaf_node.as_mut()` on
LeafScan(f, it, depth) ==
    LeafStep(f, it, LeafChoice(it.options, it.cur_leaf_node.val), depth)

\* next() after `self.find_key()?`
AfterFindKey(f, it, found, depth) ==
    IF found.kind = "some"
    THEN LeafScan(f, [it EXCEPT !.cur_leaf_node =
                                    [kind |-> "some", val |-> found.leaf_node],
                                !.cur_leaf_index = 0,
                                !.internal_node_stack = found.path], depth)
    ELSE [it |-> it, ret |-> found]

\* tree.rs Iterator::next for BtrfsTreeIter: the iterator after the call and
\* what the call returned
TreeNext(f, it, depth) ==
    IF it.cur_leaf_node.kind = "none"
    THEN AfterFindKey(f, it, find_key(f, it, depth), depth)
    ELSE LeafScan(f, it, depth)

(***************************************************************************)
(* Chunk mapper (address.rs)                                               *)
(***************************************************************************)
RECURSIVE FirstPresentStripe(_, _, _)
\* `for stripe in ...  if let Some(dev) = fs.devid_map.get(&devid)`: the index
\* of the first stripe from i on whose device is in the map, 0 if there is none
FirstPresentStripe(f, stripes, i) ==
    IF i > Len(stripes) THEN 0
    ELSE IF stripes[i].devid \in DOMAIN f.devid_map THEN i
    ELSE FirstPresentStripe(f, stripes, i + 1)

RECURSIVE FirstReachableBootstrapChunk(_, _, _)
\* a search of the bootstrap chunks that passes over a chunk that contains the
\* address when none of its stripes names a supplied device
FirstReachableBootstrapChunk(f, virt_offset, i) ==
    IF i > Len(f.bootstrap_chunks) THEN 0
    ELSE IF /\ virt_offset >= f.bootstrap_chunks[i].key.offset
            /\ virt_offset < f.bootstrap_chunks[i].key.offset
                                + f.bootstrap_chunks[i].chunk.length
            /\ FirstPresentStripe(f, f.bootstrap_chunks[i].stripes, 1) # 0
    THEN i
    ELSE FirstReachableBootstrapChunk(f, virt_offset, i + 1)

RECURSIVE FirstBootstrapChunkInclusive(_, _, _)
\* a search of the bootstrap chunks that takes start + length for an address
\* of the chunk
FirstBootstrapChunkInclusive(f, virt_offset, i) ==
    IF i > Len(f.bootstrap_chunks) THEN 0
    ELSE IF /\ virt_offset >= f.bootstrap_chunks[i].key.offset
            /\ virt_offset <= f.bootstrap_chunks[i].key.offset
                                + f.bootstrap_chunks[i].chunk.length
    THEN i
    ELSE FirstBootstrapChunkInclusive(f, virt_offset, i + 1)

RECURSIVE FirstBootstrapChunk(_, _, _)
\* `for chunk in &fs.bootstrap_chunks  if virt_offset >= start && ...`: the index
\* of the first bootstrap chunk from i on that contains the address, 0 if none
FirstBootstrapChunk(f, virt_offset, i) ==
    IF i > Len(f.bootstrap_chunks) THEN 0
    ELSE IF /\ virt_offset >= f.bootstrap_chunks[i].key.offset
            /\ virt_offset < f.bootstrap_chunks[i].key.offset
                                + f.bootstrap_chunks[i].chunk.length
    THEN i
    ELSE FirstBootstrapChunk(f, virt_offset, i + 1)

\* the search both mapper functions make in the chunk tree
ChunkSearchOption(virt_offset) ==
    [min_key |-> DiskKey(BTRFS_FIRST_CHUNK_TREE_OBJECTID, CHUNK_ITEM, virt_offset),
     max_key |-> DiskKey(BTRFS_FIRST_CHUNK_TREE_OBJECTID, CHUNK_ITEM, virt_offset),
     min_match |-> "Equal", max_match |-> "Equal"]

\* FsInfo::search_node
search_node(tree_root, options) == NewTreeIter(tree_root, options).it

\* the transmute of the item data to a btrfs_chunk followed by its stripes; the
\* bytes of a btrfs_dev_item read that way show its devid as length and the low
\* 16 bits of its generation (bytes 44..46) as num_stripes
ChunkView(data) ==
    IF data.dtype = "chunk" THEN data
    ELSE IF data.dtype = "dev_item"
    THEN [dtype |-> "chunk", length |-> data.devid,
          num_stripes |-> data.generation % 65536, stripes |-> <<>>]
    ELSE [dtype |-> "chunk", length |-> 0, num_stripes |-> 0, stripes |-> <<>>]

\* the first stripe of the sequence whose device was supplied: the slice of
\* nodesize bytes at virt_offset - start + stripe.offset on that device
StripeSlice(f, stripes, i, virt_offset, start) ==
    slice(f.devid_map[stripes[i].devid],
          virt_offset - start + stripes[i].offset,
          f.master_sb.nodesize)

\* a loop body that takes an item for the chunk only if its key is the address
LvbLeafItemExact(f, virt_offset, step, depth) ==
    IF step.ret.kind \in Aborts THEN step.ret
    ELSE IF step.ret.kind = "none"
    THEN Err("virt address not found among available chunks/devices")
    ELSE IF /\ step.ret.val.key.offset = virt_offset
            /\ FirstPresentStripe(f, ChunkView(step.ret.val.data).stripes, 1) # 0
    THEN StripeSlice(f, ChunkView(step.ret.val.data).stripes,
                     FirstPresentStripe(f, ChunkView(step.ret.val.data).stripes, 1),
                     virt_offset, step.ret.val.key.offset)
    ELSE LvbLeafItems(f, virt_offset, step.it, depth)

\* load_virt_block, the body of `for leaf_item in fs.search_node(...)`
LvbLeafItem(f, virt_offset, step, depth) ==
    IF step.ret.kind \in Aborts THEN step.ret
    ELSE IF step.ret.kind = "none"
    THEN Err("virt address not found among available chunks/devices")
    ELSE IF step.ret.val.size # SizeofChunk
              + ChunkView(step.ret.val.data).num_stripes * SizeofStripe
    THEN Panic("item size is not that of a chunk")
    ELSE IF FirstPresentStripe(f, ChunkView(step.ret.val.data).stripes, 1) # 0
    THEN StripeSlice(f, ChunkView(step.ret.val.data).stripes,
                     FirstPresentStripe(f, ChunkView(step.ret.val.data).stripes, 1),
                     virt_offset, step.ret.val.key.offset)
    ELSE LvbLeafItems(f, virt_offset, step.it, depth)

\* load_virt_block, the `for leaf_item in fs.search_node(...)` loop
LvbLeafItems(f, virt_offset, it, depth) ==
    LvbLeafItem(f, virt_offset, TreeNext(f, it, depth + 1), depth)

\* a loop body that gives up when the first stripe names no supplied device
LvbBootstrapFirstStripe(f, virt_offset, chunk) ==
    IF Len(chunk.stripes) > 0 /\ chunk.stripes[1].devid \in DOMAIN f.devid_map
    THEN StripeSlice(f, chunk.stripes, 1, virt_offset, chunk.key.offset)
    ELSE Err("no device containing stripe copy is present")

\* load_virt_block, the body of `for chunk in &fs.bootstrap_chunks` for the
\* chunk that contains the address
LvbBootstrap(f, virt_offset, chunk) ==
    IF FirstPresentStripe(f, chunk.stripes, 1) # 0
    THEN StripeSlice(f, chunk.stripes, FirstPresentStripe(f, chunk.stripes, 1),
                     virt_offset, chunk.key.offset)
    ELSE Err("no device containing stripe copy is present")

\* address.rs load_virt_block
load_virt_block(f, virt_offset, depth) ==
    IF depth > MaxDepth THEN Overflow
    ELSE IF virt_offset % f.master_sb.nodesize # 0
    THEN Panic("unaligned block address")
    ELSE IF FirstBootstrapChunk(f, virt_offset, 1) # 0
    THEN LvbBootstrap(f, virt_offset,
                      f.bootstrap_chunks[FirstBootstrapChunk(f, virt_offset, 1)])
    ELSE LvbLeafItems(f, virt_offset,
                      search_node(f.master_sb.chunk_root, ChunkSearchOption(virt_offset)),
                      depth)

\* what load_virt::<T> returns for a loaded block: the error of the load, or a
\* reference to the size_of::<T>() bytes at block_offset of the block
LoadVirtView(block, block_offset, size) ==
    IF block.kind # "ok" THEN block
    ELSE [kind |-> "ok", dev |-> block.dev, off |-> block.off + block_offset,
          len |-> size]

\* load_virt::<T> without the assertion on the end of T
load_virt_unchecked(f, virt_offset, size) ==
    LoadVirtView(load_virt_block(f, virt_offset - (virt_offset % f.master_sb.nodesize), 1),
                 virt_offset % f.master_sb.nodesize, size)

\* load_virt::<T>(fs, virt_offset), size being size_of::<T>()
load_virt(f, virt_offset, size) ==
    IF (virt_offset % f.master_sb.nodesize) + size > f.master_sb.nodesize
    THEN Panic("assertion failed: block_offset + size_of::<T>() <= nodesize")
    ELSE LoadVirtView(load_virt_block(f, virt_offset
                                         - (virt_offset % f.master_sb.nodesize), 1),
                      virt_offset % f.master_sb.nodesize, size)

RECURSIVE PushStripesFront(_, _, _, _, _)
\* a loop that puts each entry in front of the entries found before
PushStripesFront(f, stripes, i, base, results) ==
    IF i > Len(stripes) THEN results
    ELSE IF stripes[i].devid \in DOMAIN f.devid_map
    THEN PushStripesFront(f, stripes, i + 1, base,
                          <<[offset |-> base + stripes[i].offset,
                             path |-> f.devid_map[stripes[i].devid].path]>> \o results)
    ELSE PushStripesFront(f, stripes, i + 1, base, results)

RECURSIVE PushStripes(_, _, _, _, _)
\* `for stripe in ...  results.push((dev_offset, path))` over the stripes from i
\* on; base is block_start - start + block_offset
PushStripes(f, stripes, i, base, results) ==
    IF i > Len(stripes) THEN results
    ELSE IF stripes[i].devid \in DOMAIN f.devid_map
    THEN PushStripes(f, stripes, i + 1, base,
                     Append(results, [offset |-> base + stripes[i].offset,
                                      path |-> f.devid_map[stripes[i].devid].path]))
    ELSE PushStripes(f, stripes, i + 1, base, results)

\* an end of the searches that drops the first entry
VotpResultTail(results, msg) ==
    IF Len(results) > 0 THEN [kind |-> "ok", results |-> Tail(results)] ELSE Err(msg)

\* the end of both searches of virtual_offset_to_physical
VotpResult(results, msg) ==
    IF Len(results) > 0 THEN [kind |-> "ok", results |-> results] ELSE Err(msg)

\* virtual_offset_to_physical, the body of `for leaf_item in fs.search_node(...)`
VotpLeafItem(f, block_start, block_offset, step, results) ==
    IF step.ret.kind \in Aborts THEN step.ret
    ELSE IF step.ret.kind = "none"
    THEN VotpResult(results, "virt address not found among available chunks/devices")
    ELSE IF step.ret.val.size # SizeofChunk
              + ChunkView(step.ret.val.data).num_stripes * SizeofStripe
    THEN Panic("item size is not that of a chunk")
    ELSE VotpLeafItems(f, block_start, block_offset, step.it,
                       PushStripes(f, ChunkView(step.ret.val.data).stripes, 1,
                                   block_start - step.ret.val.key.offset + block_offset,
                                   results))

\* virtual_offset_to_physical, the `for leaf_item in fs.search_node(...)` loop
VotpLeafItems(f, block_start, block_offset, it, results) ==
    VotpLeafItem(f, block_start, block_offset, TreeNext(f, it, 1), results)

\* virtual_offset_to_physical with block_offset and block_start computed
VotpBlock(f, block_start, block_offset) ==
    IF FirstBootstrapChunk(f, block_start, 1) # 0
    THEN VotpResult(
             PushStripes(f, f.bootstrap_chunks[FirstBootstrapChunk(f, block_start, 1)].stripes,
                         1,
                         block_start
                           - f.bootstrap_chunks[FirstBootstrapChunk(f, block_start, 1)].key.offset
                           + block_offset,
                         <<>>),
             "no device containing stripe copy is present")
    ELSE VotpLeafItems(f, block_start, block_offset,
                       search_node(f.master_sb.chunk_root, ChunkSearchOption(block_start)),
                       <<>>)

\* address.rs virtual_offset_to_physical
virtual_offset_to_physical(f, virt_offset) ==
    VotpBlock(f, virt_offset - (virt_offset % f.master_sb.nodesize),
              virt_offset % f.master_sb.nodesize)

(***************************************************************************)
(* Checksums (btrfs.rs).  The bytes of a block after the checksum field    *)
(* are the header fields and the keys of its entries.  The crc crate is    *)
(* not part of the sources: in place of its CRC-32C stands a positional    *)
(* 16-bit digest which, like a CRC, depends on every byte and on its       *)
(* place.  The 32-byte buffer of csum_data_crc32, the digest in            *)
(* little-endian order followed by zeros, is kept as the number it holds.  *)
(***************************************************************************)
DigestWidth == 65536

RECURSIVE checksum(_, _)
\* CASTAGNOLI.checksum(buf)
checksum(crc, buf) ==
    IF buf = <<>> THEN crc
    ELSE checksum((crc * 31 + Head(buf) + 1) % DigestWidth, Tail(buf))

\* btrfs.rs csum_data_crc32
csum_data_crc32(buf) == checksum(0, buf)

\* btrfs.rs csum_data, for the one csum_type that does not panic
csum_data(buf) == csum_data_crc32(buf)

\* the bytes [BTRFS_CSUM_SIZE..nodesize) of a block
BlockBody(b) ==
    <<b.fsid, b.bytenr, b.nritems, b.level>> \o
    [k \in 1..(3 * b.nritems) |->
        LET key == b.entries[((k - 1) \div 3) + 1].key
        IN IF (k - 1) % 3 = 0 THEN key.objectid
           ELSE IF (k - 1) % 3 = 1 THEN key.item_type
           ELSE key.offset]

\* a block as it is written: its checksum field holds the checksum of the rest
Sealed(b) == [b EXCEPT !.csum = csum_data(BlockBody(b))]

(***************************************************************************)
(* Trees on disk.  A tree of n leaf items is laid out by its shape, a      *)
(* sequence <<c0, c1, .., cL>>: c0[j] is the number of items of leaf j,    *)
(* ci[j] the number of key pointers of node j of level i, and cL has one   *)
(* element, the root.  A key pointer holds the first key of its child, as  *)
(* in every btrfs tree.                                                    *)
(***************************************************************************)
RECURSIVE Compositions(_)
\* the sequences of positive numbers that add up to n
Compositions(n) ==
    IF n = 0 THEN {<<>>}
    ELSE UNION {{<<k>> \o c : c \in Compositions(n - k)} : k \in 1..n}

RECURSIVE UpperLevels(_, _)
\* the levels 1..L above m nodes
UpperLevels(m, L) ==
    IF L = 1 THEN {<< <<m>> >>}
    ELSE UNION {{<<c>> \o rest : rest \in UpperLevels(Len(c), L - 1)} :
                c \in Compositions(m)}

Shapes(n, L) ==
    IF L = 0 THEN {<< <<n>> >>}
    ELSE UNION {{<<c0>> \o rest : rest \in UpperLevels(Len(c0), L)} :
                c0 \in Compositions(n)}

RootLevel(shape) == Len(shape) - 1

RECURSIVE NodesAbove(_, _)
\* number of nodes on the levels above level i
NodesAbove(shape, i) ==
    IF i >= RootLevel(shape) THEN 0
    ELSE Len(shape[i + 2]) + NodesAbove(shape, i + 1)

TotalBlocks(shape) == NodesAbove(shape, 0) + Len(shape[1])

\* blocks are numbered from the root down, level by level
BlockIndex(shape, i, j) == NodesAbove(shape, i) + (j - 1)

FirstChild(shape, i, j) == PrefixSum(shape[i + 1], j - 1) + 1

RECURSIVE FirstItem(_, _, _)
FirstItem(shape, i, j) ==
    IF i = 0 THEN PrefixSum(shape[1], j - 1) + 1
    ELSE FirstItem(shape, i - 1, FirstChild(shape, i, j))

NodeOfBlock(shape, k) ==
    CHOOSE ij \in (0..RootLevel(shape)) \X (1..TotalBlocks(shape)) :
        /\ ij[2] <= Len(shape[ij[1] + 1])
        /\ BlockIndex(shape, ij[1], ij[2]) = k

\* the tree block of node j of level i of the tree of `items` at address `base`
TreeBlock(items, shape, i, j, base, fsid) ==
  Sealed(
    [csum |-> 0,
     fsid |-> fsid,
     bytenr |-> base + NodeSize * BlockIndex(shape, i, j),
     nritems |-> shape[i + 1][j],
     level |-> i,
     entries |->
        IF i = 0
        THEN [e \in 1..shape[1][j] |-> items[FirstItem(shape, 0, j) + e - 1]]
        ELSE [e \in 1..shape[i + 1][j] |->
                LET c == FirstChild(shape, i, j) + e - 1
                IN [key |-> items[FirstItem(shape, i - 1, c)].key,
                    blockptr |-> base + NodeSize * BlockIndex(shape, i - 1, c)]]])

\* a block that was never written
ZeroBlock ==
    [csum |-> 0, fsid |-> 0, bytenr |-> 0, nritems |-> 0, level |-> 0, entries |-> <<>>]

\* the aligned offsets of a device of len bytes
BlockOffsets(len) == {o \in 0..(len - NodeSize) : o % NodeSize = 0}

(***************************************************************************)
(* Spec: one tree, reached through bootstrap chunks on one device, and one *)
(* BtrfsTreeIter over it.                                                  *)
(***************************************************************************)
FsId == 7
TreeVirtStart == 4 * NodeSize      \* virtual address of the root block
TreePhysStart == 1 * NodeSize      \* device offset of the chunk that holds the tree

\* the r-th key of an ascending list that varies all three fields
KeyOfRank(r) ==
    DiskKey(1 + (r \div 4), IF (r \div 2) % 2 = 0 THEN INODE_ITEM ELSE ROOT_ITEM, r % 2)

\* the items of the iterated tree have the keys of odd rank, so that a search
\* key can be below, between, on and above them
TreeItems(n) ==
    [r \in 1..n |-> [key |-> KeyOfRank(2 * r - 1), size |-> 1,
                     data |-> [dtype |-> "raw", id |-> r]]]

BootstrapChunk(start, length, stripes) ==
    [key |-> DiskKey(BTRFS_FIRST_CHUNK_TREE_OBJECTID, CHUNK_ITEM, start),
     chunk |-> [length |-> length, num_stripes |-> Len(stripes)],
     stripes |-> stripes]

DeviceInfo(devid, len) == [devid |-> devid, path |-> <<"dev", devid>>, len |-> len]

DevItem(d) ==
    [key |-> DiskKey(1, DEV_ITEM, d), size |-> SizeofDevItem,
     data |-> [dtype |-> "dev_item", devid |-> d, generation |-> 0]]

ChunkItem(start, length, stripes) ==
    [key |-> DiskKey(BTRFS_FIRST_CHUNK_TREE_OBJECTID, CHUNK_ITEM, start),
     size |-> SizeofChunk + Len(stripes) * SizeofStripe,
     data |-> [dtype |-> "chunk", length |-> length,
               num_stripes |-> Len(stripes), stripes |-> stripes]]

\* the handle of a filesystem whose bootstrap chunks map the chunk root (a
\* leaf at address 0) and the blocks of the tree to device 1, except block
\* number `hole` (counted from 1; 0: no hole): its only copy is on device 2,
\* which was not supplied, or (unmapped) no chunk holds its address
TreeFs(shape, hole, unmapped) ==
    LET nb == TotalBlocks(shape)
        sys == BootstrapChunk(0, NodeSize, <<[devid |-> 1, offset |-> 0]>>)
        whole == <<BootstrapChunk(TreeVirtStart, nb * NodeSize,
                                  <<[devid |-> 1, offset |-> TreePhysStart]>>)>>
        split == <<BootstrapChunk(TreeVirtStart, (hole - 1) * NodeSize,
                                  <<[devid |-> 1, offset |-> TreePhysStart]>>)>> \o
                 (IF unmapped THEN <<>>
                  ELSE <<BootstrapChunk(TreeVirtStart + (hole - 1) * NodeSize, NodeSize,
                                        <<[devid |-> 2, offset |-> TreePhysStart]>>)>>) \o
                 <<BootstrapChunk(TreeVirtStart + hole * NodeSize,
                                  (nb - hole) * NodeSize,
                                  <<[devid |-> 1,
                                     offset |-> TreePhysStart + hole * NodeSize]>>)>>
    IN [fsid |-> FsId,
        devid_map |-> (1 :> DeviceInfo(1, TreePhysStart + nb * NodeSize)),
        master_sb |-> [nodesize |-> NodeSize, chunk_root |-> 0],
        bootstrap_chunks |-> <<sys>> \o (IF hole = 0 THEN whole ELSE split)]

\* the leaf of the chunk tree: the DEV_ITEM of device 1 and the items of the
\* chunks of f that hold an address
ChunkRootLeaf(f) ==
    LET Holds(c) == c.chunk.length > 0
        chunks == SelectSeq(f.bootstrap_chunks, Holds)
    IN Sealed([csum |-> 0, fsid |-> f.fsid, bytenr |-> f.master_sb.chunk_root,
               nritems |-> 1 + Len(chunks), level |-> 0,
               entries |-> <<DevItem(1)>> \o
                    [k \in 1..Len(chunks) |->
                        ChunkItem(chunks[k].key.offset, chunks[k].chunk.length,
                                  chunks[k].stripes)]])

TreeDisk(n, shape, f) ==
    LET nb == TotalBlocks(shape)
    IN 1 :> [o \in BlockOffsets(TreePhysStart + nb * NodeSize) |->
                IF o < TreePhysStart THEN ChunkRootLeaf(f)
                ELSE LET ij == NodeOfBlock(shape, (o - TreePhysStart) \div NodeSize)
                     IN TreeBlock(TreeItems(n), shape, ij[1], ij[2], TreeVirtStart, FsId)]

Orderings == {"Less", "Equal", "Greater"}
\* the <<min_match, max_match>> of the searches of the chunk mapper
EqualPolicy == <<"Equal", "Equal">>

SearchOption(lo, hi, policy) ==
    [min_key |-> KeyOfRank(lo), max_key |-> KeyOfRank(hi),
     min_match |-> policy[1], max_match |-> policy[2]]

NotCalled == [kind |-> "not_called"]
\* the parts of the state a specification does not use
NoLoader == paths = <<>> /\ sbret = NotCalled /\ sci = None /\ dumpret = NotCalled
NoFile == file = None /\ access = NotCalled
NoKeys == keys = None /\ ord = NotCalled
NoRepair == repair = None /\ media = None
NoIter == iter = None /\ yielded = <<>> /\ ret = NotCalled /\ calls = 0
NoAddr == lvb = NotCalled /\ votp = NotCalled /\ lv = NotCalled
MaxCalls == MaxItems + 1 + ExtraCalls

Init ==
    \* a tree of n items; with no item it is an empty leaf or one internal
    \* node without key pointers
    \E n \in 0..MaxItems, L \in 0..MaxLevel :
        /\ n = 0 => L <= 1
        /\ \E shape \in Shapes(n, L), lo \in 0..(2 * n), hi \in 0..(2 * n) :
            \E hole \in 0..TotalBlocks(shape), unmapped \in BOOLEAN :
                /\ lo <= hi
                /\ unmapped => hole > 0
                /\ fs = TreeFs(shape, hole, unmapped)
                /\ disk = TreeDisk(n, shape, fs)
                /\ iter = NewTreeIter(TreeVirtStart, SearchOption(lo, hi, EqualPolicy)).it
        /\ yielded = <<>>
        /\ ret = NotCalled
        /\ calls = 0
        /\ NoAddr /\ NoLoader /\ NoFile /\ NoKeys /\ NoRepair

\* one call of next() on the iterator
CallNext ==
    /\ calls < MaxCalls
    /\ ret.kind \notin Aborts
    /\ LET step == TreeNext(fs, iter, 1)
       IN /\ iter' = step.it
          /\ ret' = step.ret
          /\ yielded' = IF step.ret.kind = "some"
                        THEN Append(yielded, step.ret.val) ELSE yielded
    /\ calls' = calls + 1
    /\ UNCHANGED <<fs, disk, lvb, votp, lv, loadVars, fileVars, keyVars, repairVars>>

Next == CallNext

Spec == Init /\ [][Next]_vars

\* an iterator with any min_match and max_match over a tree that is all there
InitPolicy ==
    \E n \in 0..MaxItems, L \in 0..MaxLevel :
        /\ n = 0 => L <= 1
        /\ \E shape \in Shapes(n, L), lo \in 0..(2 * n), hi \in 0..(2 * n) :
            \E policy \in Orderings \X Orderings :
                /\ lo <= hi
                /\ fs = TreeFs(shape, 0, FALSE)
                /\ disk = TreeDisk(n, shape, fs)
                /\ iter = NewTreeIter(TreeVirtStart, SearchOption(lo, hi, policy)).it
        /\ yielded = <<>>
        /\ ret = NotCalled
        /\ calls = 0
        /\ NoAddr /\ NoLoader /\ NoFile /\ NoKeys /\ NoRepair

SpecPolicy == InitPolicy /\ [][Next]_vars

(***************************************************************************)
(* SpecAddr: a filesystem of two devices, of which one or both are         *)
(* supplied.  Its virtual address space, in blocks of NodeSize bytes:      *)
(*                                                                         *)
(*    block 0            below every chunk                                 *)
(*    blocks 1..3        SYS, the system chunk that holds the chunk tree;  *)
(*                       the superblock lists it as a bootstrap chunk      *)
(*    the next blocks    M1, a chunk of m1len blocks                       *)
(*    `gap` blocks       in no chunk                                       *)
(*    one block          M2, a chunk mirrored on devices 2 and 1           *)
(*    one block          beyond every chunk                                *)
(*                                                                         *)
(* The chunk tree holds the two device items and the items of SYS, M1 and  *)
(* M2, in one leaf or in two leaves under a root of level 1; the superblock *)
(* may list M1 as a second bootstrap chunk.  Device 1                      *)
(* stores SYS, M1, M2 in this order, device 2 stores M2, M1, SYS; a device *)
(* has a copy of a chunk only where a stripe of the chunk names it.  The   *)
(* blocks of M1 and M2, and those of SYS that the chunk tree does not use, *)
(* are empty leaves; the copy of M1 on device 1 may be damaged.            *)
(***************************************************************************)
MaxChunkLen == 2      \* blocks of M1
MaxGap == 1           \* blocks between M1 and M2

SysBlocks == 3
SysStart == 1 * NodeSize
M1Start == SysStart + SysBlocks * NodeSize
M2Start(m1len, gap) == M1Start + (m1len + gap) * NodeSize

Devices == {1, 2}
PresentChoices == {{1}, {2}, {1, 2}}
StripeChoices == {<<1>>, <<2>>, <<1, 2>>, <<2, 1>>}
Splits == {0, 3, 4}      \* items in the first leaf of the chunk tree; 0: one leaf
Damages == {"none", "bytenr", "fsid", "csum"}

DeviceLen(m1len) == (SysBlocks + m1len + 1) * NodeSize

\* device offset of the copy of each chunk
SysOff(d, m1len) == IF d = 1 THEN 0 ELSE (1 + m1len) * NodeSize
M1Off(d, m1len) == IF d = 1 THEN SysBlocks * NodeSize ELSE NodeSize
M2Off(d, m1len) == IF d = 1 THEN (SysBlocks + m1len) * NodeSize ELSE 0

SysStripes(devs, m1len) ==
    [i \in 1..Len(devs) |-> [devid |-> devs[i], offset |-> SysOff(devs[i], m1len)]]
M1Stripes(devs, m1len) ==
    [i \in 1..Len(devs) |-> [devid |-> devs[i], offset |-> M1Off(devs[i], m1len)]]
M2Stripes(m1len) ==
    <<[devid |-> 2, offset |-> M2Off(2, m1len)], [devid |-> 1, offset |-> M2Off(1, m1len)]>>

\* an item of the chunk tree: a device (objectid 1 is the objectid of the
\* device items) and a chunk followed by its stripes
ChunkTreeItems(sys, m1, m1len, gap) ==
    <<DevItem(1), DevItem(2),
      ChunkItem(SysStart, SysBlocks * NodeSize, SysStripes(sys, m1len)),
      ChunkItem(M1Start, m1len * NodeSize, M1Stripes(m1, m1len)),
      ChunkItem(M2Start(m1len, gap), NodeSize, M2Stripes(m1len))>>

ChunkTreeShape(split) ==
    IF split = 0 THEN << <<5>> >> ELSE << <<split, 5 - split>>, <<2>> >>

EmptyLeaf(bytenr) ==
    Sealed([csum |-> 0, fsid |-> FsId, bytenr |-> bytenr, nritems |-> 0, level |-> 0,
            entries |-> <<>>])

\* a block that was damaged after it was written
Damaged(b, how) ==
    IF how = "bytenr" THEN [b EXCEPT !.bytenr = @ + NodeSize]
    ELSE IF how = "fsid" THEN [b EXCEPT !.fsid = @ + 1]
    ELSE IF how = "csum" THEN [b EXCEPT !.csum = (@ + 1) % DigestWidth]
    ELSE b

InSeq(x, s) == \E i \in 1..Len(s) : s[i] = x

\* the handle: the supplied devices and the bootstrap chunks, which are SYS,
\* then a second entry for SYS (dup) or the entry of M1 (m1boot)
AddrFs(present, sys, dup, m1len, m1, m1boot) ==
    [fsid |-> FsId,
     devid_map |-> [d \in present |-> DeviceInfo(d, DeviceLen(m1len))],
     master_sb |-> [nodesize |-> NodeSize, chunk_root |-> SysStart],
     bootstrap_chunks |->
        <<BootstrapChunk(SysStart, SysBlocks * NodeSize, SysStripes(sys, m1len))>> \o
        (IF dup THEN <<BootstrapChunk(SysStart, SysBlocks * NodeSize,
                                      SysStripes(<<1, 2>>, m1len))>>
         ELSE <<>>) \o
        (IF m1boot THEN <<BootstrapChunk(M1Start, m1len * NodeSize, M1Stripes(m1, m1len))>>
         ELSE <<>>)]

\* the block at offset o of device d
AddrBlock(d, o, sys, dup, split, m1len, m1, gap, damage) ==
    LET k == (o - SysOff(d, m1len)) \div NodeSize
        shape == ChunkTreeShape(split)
        ij == NodeOfBlock(shape, k)
    IN IF o >= SysOff(d, m1len) /\ o < SysOff(d, m1len) + SysBlocks * NodeSize
       THEN IF ~(InSeq(d, sys) \/ dup) THEN ZeroBlock
            ELSE IF k < TotalBlocks(shape)
            THEN TreeBlock(ChunkTreeItems(sys, m1, m1len, gap), shape, ij[1], ij[2],
                           SysStart, FsId)
            ELSE EmptyLeaf(SysStart + k * NodeSize)
       ELSE IF o >= M1Off(d, m1len) /\ o < M1Off(d, m1len) + m1len * NodeSize
       THEN IF InSeq(d, m1)
            THEN Damaged(EmptyLeaf(M1Start + o - M1Off(d, m1len)),
                         IF d = 1 THEN damage ELSE "none")
            ELSE ZeroBlock
       ELSE EmptyLeaf(M2Start(m1len, gap))

AddrDisk(sys, dup, split, m1len, m1, gap, damage) ==
    [d \in Devices |->
        [o \in BlockOffsets(DeviceLen(m1len)) |->
            AddrBlock(d, o, sys, dup, split, m1len, m1, gap, damage)]]

InitAddr ==
    /\ \E present \in PresentChoices, sys \in StripeChoices, dup \in BOOLEAN,
          split \in Splits, m1len \in 1..MaxChunkLen, m1 \in StripeChoices,
          gap \in 0..MaxGap, damage \in Damages, m1boot \in BOOLEAN :
            /\ m1boot => (~dup /\ damage = "none")
            /\ fs = AddrFs(present, sys, dup, m1len, m1, m1boot)
            /\ disk = AddrDisk(sys, dup, split, m1len, m1, gap, damage)
    /\ NoIter /\ NoAddr /\ NoLoader /\ NoFile /\ NoKeys /\ NoRepair

\* the addresses asked for end beyond the last chunk
MaxAddr == (Cardinality(DOMAIN disk[1]) + 1 + MaxGap) * NodeSize

\* load_virt_block(fs, v) for a block address v
CallLoadVirtBlock ==
    /\ lvb = NotCalled
    /\ \E v \in 0..MaxAddr :
        /\ v % NodeSize = 0
        /\ lvb' = [kind |-> "called", v |-> v, res |-> load_virt_block(fs, v, 1)]
    /\ UNCHANGED <<fs, disk, iterVars, votp, lv, loadVars, fileVars, keyVars, repairVars>>

\* virtual_offset_to_physical(fs, V) for an address V of the block that was loaded
CallVotp ==
    /\ lvb # NotCalled
    /\ votp = NotCalled
    /\ lv = NotCalled
    /\ \E V \in lvb.v..(lvb.v + NodeSize - 1) :
        votp' = [kind |-> "called", v |-> V, res |-> virtual_offset_to_physical(fs, V)]
    /\ UNCHANGED <<fs, disk, iterVars, lvb, lv, loadVars, fileVars, keyVars, repairVars>>

\* load_virt::<T>(fs, V) for an address V of the block that was loaded and a
\* T of 1 to nodesize + 1 bytes
CallLoadVirt ==
    /\ lvb # NotCalled
    /\ votp = NotCalled
    /\ lv = NotCalled
    /\ \E V \in lvb.v..(lvb.v + NodeSize - 1), size \in 1..(NodeSize + 1) :
        lv' = [kind |-> "called", v |-> V, size |-> size, res |-> load_virt(fs, V, size)]
    /\ UNCHANGED <<fs, disk, iterVars, lvb, votp, loadVars, fileVars, keyVars, repairVars>>

NextAddr == CallLoadVirtBlock \/ CallVotp \/ CallLoadVirt

SpecAddr == InitAddr /\ [][NextAddr]_vars

(***************************************************************************)
(* Vocabulary of the properties of the tree iterator                       *)
(***************************************************************************)
\* the (objectid, item_type, offset) order, stated without cmp_key
KeyLess(a, b) ==
    \/ a.objectid < b.objectid
    \/ a.objectid = b.objectid /\ a.item_type < b.item_type
    \/ a.objectid = b.objectid /\ a.item_type = b.item_type /\ a.offset < b.offset

KeyInRange(k, options) ==
    /\ ~KeyLess(k, options.min_key)
    /\ ~KeyLess(options.max_key, k)

\* the blocks of the iterated tree and the items in its leaves
TreeBlocksOnDisk == {disk[1][o] : o \in {x \in DOMAIN disk[1] : x >= TreePhysStart}}

LeafItemsOnDisk ==
    UNION {{b.entries[e] : e \in 1..b.nritems} : b \in {x \in TreeBlocksOnDisk : x.level = 0}}

\* every block of the tree can be loaded: each bootstrap chunk has a stripe on
\* a supplied device, and each block of the tree is in a bootstrap chunk
AllLoadable ==
    /\ \A i \in 1..Len(fs.bootstrap_chunks) :
          FirstPresentStripe(fs, fs.bootstrap_chunks[i].stripes, 1) # 0
    /\ \A b \in TreeBlocksOnDisk :
          \E i \in 1..Len(fs.bootstrap_chunks) :
              /\ b.bytenr >= fs.bootstrap_chunks[i].key.offset
              /\ b.bytenr < fs.bootstrap_chunks[i].key.offset
                                + fs.bootstrap_chunks[i].chunk.length

\* next() has just returned None for the first time
FirstNone == ret.kind = "none" /\ calls = Len(yielded) + 1

TimesYielded(e) ==
    Cardinality({i \in 1..Len(yielded) :
                    yielded[i].key = e.key /\ yielded[i].data = e.data})

\* C1: on a well-formed tree whose blocks are all loadable, when next() returns
\* None for the first time every leaf item with min_key <= key <= max_key has
\* been yielded exactly once
C1_EveryItemInRangeOnce ==
    (FirstNone /\ AllLoadable) =>
        \A e \in LeafItemsOnDisk :
            KeyInRange(e.key, iter.options) => TimesYielded(e) = 1

\* a finished iteration over a tree with a level-2 root that yielded items in
\* range from two leaves and left an item out of range alone
C1_Witness ==
    /\ FirstNone /\ AllLoadable
    /\ disk[1][TreePhysStart].level = 2
    /\ \E i, j \in 1..Len(yielded) :
          /\ yielded[i].block_offset # yielded[j].block_offset
          /\ KeyInRange(yielded[i].key, iter.options)
          /\ KeyInRange(yielded[j].key, iter.options)
    /\ \E e \in LeafItemsOnDisk : KeyLess(iter.options.max_key, e.key)

\* C2: next() never yields an item whose key is below min_key or above max_key
C2_NoItemOutsideRange ==
    AllLoadable =>
        \A i \in 1..Len(yielded) : KeyInRange(yielded[i].key, iter.options)

\* C3: the keys of the items that successive next() calls return are strictly
\* ascending
C3_StrictlyAscending ==
    \A i, j \in 1..Len(yielded) :
        i < j => KeyLess(yielded[i].key, yielded[j].key)

\* two consecutive calls returned items of two different leaves
C3_Witness ==
    \E i \in 1..(Len(yielded) - 1) :
        /\ yielded[i].block_offset # yielded[i + 1].block_offset
        /\ KeyLess(yielded[i].key, yielded[i + 1].key)

\* C11: with min_key = max_key the iterator yields at most one item, whatever
\* the tree and whether or not the key is in it
C11_PointLookupYieldsAtMostOne ==
    (iter.options.min_key = iter.options.max_key) => Len(yielded) <= 1

\* a point lookup in a tree of two levels above the leaves returned one item,
\* then None, and None again on a further call
C11_Witness ==
    /\ iter.options.min_key = iter.options.max_key
    /\ disk[1][TreePhysStart].level = 2
    /\ Len(yielded) = 1 /\ ret.kind = "none" /\ calls >= 3

(***************************************************************************)
(* Vocabulary of the properties of the chunk mapper, stated on the         *)
(* superblock's chunks and on the chunk items found on the devices,        *)
(* without the operators of the mapper                                     *)
(***************************************************************************)
Chunk(key, length, stripes) ==
    [start |-> key.offset, length |-> length, stripes |-> stripes]

Covers(c, v) == c.start <= v /\ v < c.start + c.length

Supplied(stripe) == stripe.devid \in DOMAIN fs.devid_map

HasSupplied(c) == \E i \in 1..Len(c.stripes) : Supplied(c.stripes[i])

\* the first stripe of c, in stripe order, whose device was supplied
FirstSupplied(c) ==
    c.stripes[CHOOSE i \in 1..Len(c.stripes) :
                 /\ Supplied(c.stripes[i])
                 /\ \A j \in 1..(i - 1) : ~Supplied(c.stripes[j])]

BootstrapCovering(v) ==
    {i \in 1..Len(fs.bootstrap_chunks) :
        Covers(Chunk(fs.bootstrap_chunks[i].key, fs.bootstrap_chunks[i].chunk.length,
                     fs.bootstrap_chunks[i].stripes), v)}

\* the bootstrap chunk that the superblock lists first among those with v
FirstBootstrapCovering(v) ==
    LET i == CHOOSE k \in BootstrapCovering(v) : \A j \in BootstrapCovering(v) : k <= j
    IN Chunk(fs.bootstrap_chunks[i].key, fs.bootstrap_chunks[i].chunk.length,
             fs.bootstrap_chunks[i].stripes)

\* the chunk items in the leaves of the chunk tree, on whatever device
ChunkTreeChunks ==
    UNION {UNION {{Chunk(disk[d][o].entries[e].key, disk[d][o].entries[e].data.length,
                         disk[d][o].entries[e].data.stripes) :
                      e \in {x \in 1..disk[d][o].nritems :
                                disk[d][o].entries[x].data.dtype = "chunk"}} :
                  o \in {x \in DOMAIN disk[d] : disk[d][x].level = 0}} :
           d \in DOMAIN disk}

InNoChunk(v) ==
    /\ BootstrapCovering(v) = {}
    /\ \A c \in ChunkTreeChunks : ~Covers(c, v)

\* the chunk tree lies in the chunk of its root: its blocks can be loaded when
\* that chunk has a stripe on a supplied device
ChunkTreeLoadable ==
    /\ BootstrapCovering(fs.master_sb.chunk_root) # {}
    /\ HasSupplied(FirstBootstrapCovering(fs.master_sb.chunk_root))

\* the slice of nodesize bytes in the first supplied stripe of c that holds v
ReadFrom(c, v) ==
    [kind |-> "ok", dev |-> FirstSupplied(c).devid,
     off |-> v - c.start + FirstSupplied(c).offset, len |-> fs.master_sb.nodesize]

LvbCalled == lvb # NotCalled /\ lvb.v % fs.master_sb.nodesize = 0
VotpCalled == votp # NotCalled
BlockStart(v) == v - (v % fs.master_sb.nodesize)

NoStripeCopy == Err("no device containing stripe copy is present")

\* one entry for each supplied stripe of c, in stripe order
EntriesOf(c, v) ==
    LET supplied == SelectSeq(c.stripes, Supplied)
    IN [i \in 1..Len(supplied) |->
            [offset |-> v - c.start + supplied[i].offset,
             path |-> fs.devid_map[supplied[i].devid].path]]

\* C4: an aligned address in no bootstrap chunk and inside chunk C of the chunk
\* tree is read, nodesize bytes, from the first stripe of C whose device is
\* supplied, at device offset virt - C.start + stripe.offset
C4_ChunkTreeChunkRead ==
    (LvbCalled /\ BootstrapCovering(lvb.v) = {} /\ ChunkTreeLoadable) =>
        \A c \in ChunkTreeChunks :
            (Covers(c, lvb.v) /\ HasSupplied(c)) => lvb.res = ReadFrom(c, lvb.v)

\* a block that is not the first of its chunk was read from the second stripe
\* of the chunk, found in the second leaf of the chunk tree
C4_Witness ==
    /\ LvbCalled /\ BootstrapCovering(lvb.v) = {} /\ ChunkTreeLoadable
    /\ lvb.res.kind = "ok"
    /\ \E d \in DOMAIN disk : \E o \in DOMAIN disk[d] :
          disk[d][o].bytenr = fs.master_sb.chunk_root /\ disk[d][o].level = 1
    /\ \E c \in ChunkTreeChunks :
          /\ Covers(c, lvb.v) /\ c.start # lvb.v
          /\ Len(c.stripes) = 2 /\ ~Supplied(c.stripes[1])
          /\ lvb.res = ReadFrom(c, lvb.v)

\* C5: load_virt_block returns an error, and no slice, for an aligned address
\* that lies in no bootstrap chunk and in no chunk of the chunk tree
C5_UnmappedAddressIsError ==
    (LvbCalled /\ InNoChunk(lvb.v)) => lvb.res.kind = "err"

\* C6: an aligned address inside a bootstrap chunk is read, nodesize bytes, from
\* the first stripe of that chunk whose device is supplied, at device offset
\* virt - start + stripe.offset
C6_BootstrapChunkRead ==
    (LvbCalled /\ BootstrapCovering(lvb.v) # {}) =>
        (HasSupplied(FirstBootstrapCovering(lvb.v)) =>
            lvb.res = ReadFrom(FirstBootstrapCovering(lvb.v), lvb.v))

\* a block of a bootstrap chunk, not its first, was read from the second stripe
\* because the device of the first stripe is absent
C6_Witness ==
    /\ LvbCalled /\ BootstrapCovering(lvb.v) # {}
    /\ lvb.v # FirstBootstrapCovering(lvb.v).start
    /\ ~Supplied(FirstBootstrapCovering(lvb.v).stripes[1])
    /\ lvb.res.kind = "ok"
    /\ lvb.res.dev = FirstBootstrapCovering(lvb.v).stripes[2].devid

\* C7: when the first bootstrap chunk that contains the address has no stripe on
\* a supplied device, load_virt_block and virtual_offset_to_physical end with
\* the error of that chunk: no later bootstrap chunk and no chunk of the chunk
\* tree is used
C7_UnreachableBootstrapChunkIsError ==
    /\ (LvbCalled /\ BootstrapCovering(lvb.v) # {}) =>
          (~HasSupplied(FirstBootstrapCovering(lvb.v)) => lvb.res = NoStripeCopy)
    /\ (VotpCalled /\ BootstrapCovering(BlockStart(votp.v)) # {}) =>
          (~HasSupplied(FirstBootstrapCovering(BlockStart(votp.v))) =>
              votp.res = NoStripeCopy)

\* both calls failed on an address whose first bootstrap chunk is out of reach
\* although a later bootstrap chunk with the address has a supplied stripe
C7_Witness ==
    /\ LvbCalled /\ VotpCalled
    /\ lvb.res = NoStripeCopy /\ votp.res = NoStripeCopy
    /\ ~HasSupplied(FirstBootstrapCovering(lvb.v))
    /\ \E i \in BootstrapCovering(lvb.v) : HasSupplied(fs.bootstrap_chunks[i])

\* C8: for an address V in chunk C, virtual_offset_to_physical returns one entry
\* for each stripe of C on a supplied device, in stripe order, with offset
\* V - C.start + S.offset, also when V is not aligned
C8_OneEntryPerSuppliedStripe ==
    VotpCalled =>
        /\ BootstrapCovering(votp.v) # {} =>
              (HasSupplied(FirstBootstrapCovering(votp.v)) =>
                  /\ votp.res.kind = "ok"
                  /\ votp.res.results = EntriesOf(FirstBootstrapCovering(votp.v), votp.v))
        /\ (BootstrapCovering(votp.v) = {} /\ ChunkTreeLoadable) =>
              \A c \in ChunkTreeChunks :
                  (Covers(c, votp.v) /\ HasSupplied(c)) =>
                      /\ votp.res.kind = "ok"
                      /\ votp.res.results = EntriesOf(c, votp.v)

\* an unaligned address of a chunk of the chunk tree gave two entries
C8_Witness ==
    /\ VotpCalled /\ votp.v % fs.master_sb.nodesize # 0
    /\ BootstrapCovering(votp.v) = {}
    /\ votp.res.kind = "ok" /\ Len(votp.res.results) = 2
    /\ votp.res.results[1].path # votp.res.results[2].path

\* entries are left out for the stripes of absent devices
C8_WitnessOmitted ==
    /\ VotpCalled /\ votp.res.kind = "ok"
    /\ \E c \in ChunkTreeChunks :
          Covers(c, votp.v) /\ Len(c.stripes) > Len(votp.res.results)

\* C9: whenever load_virt_block(fs, v) succeeds for an aligned v,
\* virtual_offset_to_physical(fs, v) succeeds with a non-empty vector whose
\* first entry is the device and offset load_virt_block read from
C9_FirstEntryIsBlockRead ==
    (LvbCalled /\ lvb.res.kind = "ok" /\ VotpCalled /\ votp.v = lvb.v) =>
        /\ votp.res.kind = "ok"
        /\ Len(votp.res.results) > 0
        /\ votp.res.results[1] = [offset |-> lvb.res.off,
                                  path |-> fs.devid_map[lvb.res.dev].path]

\* both calls succeeded on the same address of a chunk with two supplied stripes
C9_Witness ==
    /\ LvbCalled /\ lvb.res.kind = "ok" /\ VotpCalled /\ votp.v = lvb.v
    /\ votp.res.kind = "ok" /\ Len(votp.res.results) = 2
    /\ BootstrapCovering(lvb.v) = {}

\* C10: the block load_virt_block returns for an address of a chunk has that
\* address as header.bytenr, the fsid of the handle as header.fsid, and a
\* checksum field equal to the checksum of the rest of the block
C10_ReturnedBlockVerified ==
    (LvbCalled /\ lvb.res.kind = "ok" /\ ~InNoChunk(lvb.v)) =>
        /\ BlockAt(lvb.res).bytenr = lvb.v
        /\ BlockAt(lvb.res).fsid = fs.fsid
        /\ BlockAt(lvb.res).csum = csum_data(BlockBody(BlockAt(lvb.res)))

Adjacent(a, b) == a.start + a.length = b.start

BootstrapChunks ==
    {Chunk(fs.bootstrap_chunks[i].key, fs.bootstrap_chunks[i].chunk.length,
           fs.bootstrap_chunks[i].stripes) : i \in 1..Len(fs.bootstrap_chunks)}

\* what a request for v gives when it is mapped through chunk c: the slice in
\* the first supplied stripe of c, or an error when c has none
MappedThrough(c, v) ==
    IF HasSupplied(c) THEN lvb.res = ReadFrom(c, v) ELSE lvb.res.kind = "err"

\* C12: an aligned request at B.start, where chunk A ends at B.start, is mapped
\* through B: for two bootstrap chunks, and for two chunks of the chunk tree
C12_BoundaryGoesToStartingChunk ==
    LvbCalled =>
        /\ \A a \in BootstrapChunks, b \in BootstrapChunks :
              (Adjacent(a, b) /\ lvb.v = b.start) => MappedThrough(b, lvb.v)
        /\ (BootstrapCovering(lvb.v) = {} /\ ChunkTreeLoadable) =>
              \A a \in ChunkTreeChunks, b \in ChunkTreeChunks :
                  (Adjacent(a, b) /\ lvb.v = b.start) => MappedThrough(b, lvb.v)

\* the first block of a bootstrap chunk that begins where another one ends was
\* read from a device offset that the chunk before it does not give
C12_Witness ==
    /\ LvbCalled /\ lvb.res.kind = "ok"
    /\ \E a \in BootstrapChunks, b \in BootstrapChunks :
          /\ Adjacent(a, b) /\ lvb.v = b.start
          /\ lvb.res = ReadFrom(b, lvb.v)
          /\ HasSupplied(a) /\ lvb.res # ReadFrom(a, lvb.v)

\* the same for two chunks of the chunk tree, neither a bootstrap chunk
C12_WitnessChunkTree ==
    /\ LvbCalled /\ lvb.res.kind = "ok" /\ BootstrapCovering(lvb.v) = {}
    /\ \E a \in ChunkTreeChunks, b \in ChunkTreeChunks :
          /\ Adjacent(a, b) /\ lvb.v = b.start
          /\ BootstrapCovering(a.start) = {}
          /\ lvb.res = ReadFrom(b, lvb.v)
          /\ HasSupplied(a) /\ lvb.res # ReadFrom(a, lvb.v)

LvCalled == lv # NotCalled /\ LvbCalled

\* C13: load_virt::<T>(v) aborts when T would end beyond the block of v, and
\* otherwise gives what loading the block of v gives: its error, or the
\* size_of::<T>() bytes at v mod nodesize of the block that load_virt_block
\* returns for v - (v mod nodesize), all of them inside that block
C13_LoadVirtStaysInOneBlock ==
    LvCalled =>
        IF (lv.v % fs.master_sb.nodesize) + lv.size > fs.master_sb.nodesize
        THEN lv.res.kind = "panic"
        ELSE IF lvb.res.kind = "ok"
        THEN /\ lv.res.kind = "ok"
             /\ lv.res.dev = lvb.res.dev
             /\ lv.res.off = lvb.res.off + (lv.v % fs.master_sb.nodesize)
             /\ lv.res.len = lv.size
             /\ lv.res.off + lv.res.len <= lvb.res.off + lvb.res.len
        ELSE lv.res = lvb.res

\* a T that ends exactly at the end of the block, at a nonzero offset of a
\* block that the chunk tree maps
C13_Witness ==
    /\ LvCalled /\ lv.res.kind = "ok"
    /\ lv.v % fs.master_sb.nodesize > 0
    /\ lv.res.off + lv.res.len = lvb.res.off + lvb.res.len
    /\ BootstrapCovering(lvb.v) = {}

\* a T that would straddle the end of the block made the call abort
C13_WitnessStraddle ==
    /\ LvCalled /\ lv.res.kind = "panic" /\ lvb.res.kind = "ok"
    /\ lv.v % fs.master_sb.nodesize > 0 /\ lv.size <= fs.master_sb.nodesize

(***************************************************************************)
(* Superblock loader (btrfs.rs).  A device file holds up to                *)
(* BTRFS_SUPER_MIRROR_MAX copies of the superblock, as many as its length   *)
(* allows; copy 1 is the primary one at BTRFS_SUPER_INFO_OFFSET.  The       *)
(* system chunk array of a superblock is BTRFS_SYSTEM_CHUNK_ARRAY_SIZE      *)
(* bytes: the records written to it, each a disk key, a btrfs_chunk that    *)
(* embeds its first stripe (btrfs.rs reads chunk.stripe) and the other      *)
(* stripes, then zero bytes.  A record that does not fit is cut at the end  *)
(* of the array.                                                           *)
(***************************************************************************)
MaxGen == 2        \* generations of the superblock copies
MaxRecords == 2    \* records written to a system chunk array
MaxPaths == 3      \* device files given to dump

BTRFS_SUPER_MIRROR_MAX == 3
BTRFS_SYSTEM_CHUNK_ARRAY_SIZE == 2048
BTRFS_MAGIC == <<95, 66, 72, 82, 102, 83, 95, 77>>     \* 0x4D5F53665248425F
CRC32 == 0
XXHASH == 1
SHA256 == 2
BLAKE2 == 3
SizeofDiskKey == 17
ChunkRoot == 1 * NodeSize

Max(a, b) == IF a > b THEN a ELSE b

\* bytes of a record of the array whose chunk says num_stripes
RecordLen(num_stripes) ==
    SizeofDiskKey + SizeofChunk + SizeofStripe + (Max(num_stripes, 1) - 1) * SizeofStripe

\* a record as the iterator returns it: ChunkInfo(key, chunk, extra_stripes)
ChunkInfo(key, length, num_stripes) ==
    [key |-> key,
     chunk |-> [length |-> length, num_stripes |-> num_stripes,
                stripe |-> IF num_stripes = 0 /\ length = 0
                           THEN [devid |-> 0, offset |-> 0]
                           ELSE [devid |-> 1, offset |-> key.offset]],
     extra_stripes |-> [k \in 1..(Max(num_stripes, 1) - 1) |->
                            [devid |-> k + 1, offset |-> key.offset]]]

\* what zero bytes decode to
ZeroRecord == ChunkInfo(DiskKey(0, 0, 0), 0, 0)

\* first byte of record i of the array
RecordStart(recs, i) ==
    SumSeq([k \in 1..(i - 1) |-> RecordLen(recs[k].chunk.num_stripes)])

\* the record that starts at byte pos: a written one, or zero bytes after the
\* last written one
RecordAt(recs, pos) ==
    IF \E i \in 1..Len(recs) : RecordStart(recs, i) = pos
    THEN recs[CHOOSE i \in 1..Len(recs) : RecordStart(recs, i) = pos]
    ELSE ZeroRecord

\* SysChunkIter::new
NewSysChunkIter(sb) ==
    [array |-> sb.sys_chunk_array, cursor |-> 0, size |-> sb.sys_chunk_array_size]

\* SysChunkIter::next: the iterator after the call and what the call returned
SysChunkNext(it) ==
    IF it.cursor >= it.size
    THEN IF it.cursor = 0
         THEN [it |-> it,
               ret |-> Panic("attempt to calculate the remainder with a divisor of zero")]
         ELSE IF it.size % it.cursor # 0
         THEN [it |-> it, ret |-> Panic("assertion failed: 0 == size % position")]
         ELSE [it |-> it, ret |-> None]
    ELSE IF it.cursor + RecordLen(RecordAt(it.array, it.cursor).chunk.num_stripes)
                > BTRFS_SYSTEM_CHUNK_ARRAY_SIZE
    \* a read_exact beyond the array fails and .ok()? makes next() return None
    \* (where a failed read_exact leaves the cursor depends on the library
    \* version; no call follows it)
    THEN [it |-> [it EXCEPT !.cursor = BTRFS_SYSTEM_CHUNK_ARRAY_SIZE], ret |-> None]
    ELSE [it |-> [it EXCEPT !.cursor = it.cursor
                     + RecordLen(RecordAt(it.array, it.cursor).chunk.num_stripes)],
          ret |-> [kind |-> "some", val |-> RecordAt(it.array, it.cursor)]]

\* a csum_data that computes the crc32 whatever the csum_type
csum_data_any(buf, csum_type) == [kind |-> "ok", csum |-> csum_data_crc32(buf)]

\* csum_data(buf, csum_type)
csum_data_typed(buf, csum_type) ==
    IF csum_type = CRC32 THEN [kind |-> "ok", csum |-> csum_data_crc32(buf)]
    ELSE Panic("only crc32 checksums are implemented")

\* the bytes [BTRFS_CSUM_SIZE..BTRFS_SUPER_INFO_SIZE) of a superblock
SbBody(sb) ==
    <<sb.fsid>> \o sb.magic \o
    <<sb.generation, sb.chunk_root, sb.total_bytes, sb.num_devices, sb.sectorsize,
      sb.nodesize, sb.stripesize, sb.sys_chunk_array_size, sb.csum_type,
      sb.dev_item.devid, sb.dev_item.fsid>> \o
    [k \in 1..(2 * Len(sb.sys_chunk_array)) |->
        IF k % 2 = 1 THEN sb.sys_chunk_array[(k + 1) \div 2].key.offset
        ELSE sb.sys_chunk_array[k \div 2].chunk.num_stripes]

\* a superblock with its checksum written
SealedSb(sb) == [sb EXCEPT !.csum = csum_data_crc32(SbBody(sb))]

RECURSIVE DumpChunksLoop(_, _)
\* the for loop of dump_chunks over SysChunkIter::new(sb): "ok", or the panic
\* of next() or of an assertion on a record
DumpChunksLoop(it, chunk_root) ==
    IF SysChunkNext(it).ret.kind = "none" THEN [kind |-> "ok"]
    ELSE IF SysChunkNext(it).ret.kind = "panic" THEN SysChunkNext(it).ret
    ELSE IF SysChunkNext(it).ret.val.key.item_type # CHUNK_ITEM
    THEN Panic("assertion failed: key.type == CHUNK_ITEM")
    ELSE IF SysChunkNext(it).ret.val.key.objectid # BTRFS_FIRST_CHUNK_TREE_OBJECTID
    THEN Panic("assertion failed: objectid == BTRFS_FIRST_CHUNK_TREE_OBJECTID")
    ELSE IF SysChunkNext(it).ret.val.key.offset # chunk_root
    THEN Panic("assertion failed: offset == chunk_root")
    ELSE DumpChunksLoop(SysChunkNext(it).it, chunk_root)

dump_chunks(sb) == DumpChunksLoop(NewSysChunkIter(sb), sb.chunk_root)

\* load_sb(path): the superblock read at BTRFS_SUPER_INFO_OFFSET of the device
load_sb(dev) ==
    IF dev.copies < 1 THEN Err("failed to fill whole buffer")
    ELSE IF dev.sbs[1].magic # BTRFS_MAGIC THEN Err("invalid magic in block")
    ELSE IF csum_data_typed(SbBody(dev.sbs[1]), dev.sbs[1].csum_type).kind = "panic"
    THEN csum_data_typed(SbBody(dev.sbs[1]), dev.sbs[1].csum_type)
    ELSE IF csum_data_typed(SbBody(dev.sbs[1]), dev.sbs[1].csum_type).csum
                # dev.sbs[1].csum
    THEN Err("invalid checksum in superblock")
    ELSE IF dump_chunks(dev.sbs[1]).kind = "panic" THEN dump_chunks(dev.sbs[1])
    ELSE [kind |-> "ok", sb |-> dev.sbs[1]]

RECURSIVE SysChunkCollect(_)
\* for ci in SysChunkIter::new(&sb) { initial_chunks.push(ci) }, for an array
\* that dump_chunks went through: the chunks pushed
SysChunkCollect(it) ==
    IF SysChunkNext(it).ret.kind # "some" THEN <<>>
    ELSE <<SysChunkNext(it).ret.val>> \o SysChunkCollect(SysChunkNext(it).it)

\* the state of dump before its loop over the paths
DumpStart ==
    [kind |-> "running", fsid |-> None, devid_map |-> <<>>, master_sb |-> None,
     initial_chunks |-> <<>>]

SomeOf(x) == [kind |-> "some", val |-> x]

\* a turn that does not look at the fsid of the dev_item
DumpTurnNoDevItem(st, sb) ==
    IF st.fsid.kind = "some" /\ sb.fsid # st.fsid.val
    THEN Panic("assertion failed: sb.fsid == f")
    ELSE IF st.master_sb.kind = "some" /\ st.master_sb.val.num_devices # sb.num_devices
    THEN Panic("assertion failed: prev_num_devices == num_devices")
    ELSE [kind |-> "running",
          fsid |-> SomeOf(sb.fsid),
          devid_map |-> st.devid_map \o <<sb.dev_item.devid>>,
          master_sb |-> SomeOf(sb),
          initial_chunks |-> IF Len(st.initial_chunks) = 0
                             THEN SysChunkCollect(NewSysChunkIter(sb))
                             ELSE st.initial_chunks]

\* one turn of the loop of dump with a superblock that load_sb returned
DumpTurn(st, sb) ==
    IF st.fsid.kind = "some" /\ sb.fsid # st.fsid.val
    THEN Panic("assertion failed: sb.fsid == f")
    ELSE IF sb.dev_item.fsid # (IF st.fsid.kind = "some" THEN st.fsid.val ELSE sb.fsid)
    THEN Panic("assertion failed: sb.dev_item.fsid == fsid")
    ELSE IF st.master_sb.kind = "some" /\ st.master_sb.val.num_devices # sb.num_devices
    THEN Panic("assertion failed: prev_num_devices == num_devices")
    ELSE [kind |-> "running",
          fsid |-> SomeOf(sb.fsid),
          devid_map |-> st.devid_map \o <<sb.dev_item.devid>>,
          master_sb |-> SomeOf(sb),
          initial_chunks |-> IF Len(st.initial_chunks) = 0
                             THEN SysChunkCollect(NewSysChunkIter(sb))
                             ELSE st.initial_chunks]

\* a turn for a device, given what load_sb returned for it
DumpDevice(st, loaded) ==
    IF loaded.kind # "ok" THEN loaded ELSE DumpTurn(st, loaded.sb)

RECURSIVE DumpLoop(_, _)
\* the loop of dump over the paths from the state st
DumpLoop(st, ps) ==
    IF st.kind # "running" \/ ps = <<>> THEN st
    ELSE DumpLoop(DumpDevice(st, load_sb(Head(ps))), Tail(ps))

\* the FsInfo that dump builds after the loop
DumpHandle(st) ==
    IF st.kind # "running" THEN st
    ELSE IF st.master_sb.kind = "none"
    THEN Panic("assertion failed: master_sb.is_some()")
    ELSE [kind |-> "ok",
          fs |-> [fsid |-> st.fsid.val,
                  devid_map |-> {st.devid_map[k] : k \in 1..Len(st.devid_map)},
                  master_sb |-> st.master_sb.val,
                  bootstrap_chunks |-> st.initial_chunks]]

\* dump(paths) up to the FsInfo: the error or panic that ended it, or the
\* handle
dump(ps) == DumpHandle(DumpLoop(DumpStart, ps))

(***************************************************************************)
(* SpecSb: one device file; load_sb is called on it, or a SysChunkIter is   *)
(* made for its primary superblock and next() is called until it returns   *)
(* None or aborts.                                                         *)
(***************************************************************************)
SbFlaws == {"none", "magic", "csum", "xxhash", "sha256", "blake2", "total_bytes", "num_devices",
            "sectorsize", "nodesize", "stripesize"}

\* a superblock as mkfs or a commit writes it, then changed as flaw says
Superblock(fsid, devfsid, devid, num_devices, gen, recs, size, flaw) ==
    LET good == [csum |-> 0, fsid |-> fsid, magic |-> BTRFS_MAGIC,
                 generation |-> gen, chunk_root |-> ChunkRoot,
                 total_bytes |-> 8 * NodeSize, num_devices |-> num_devices,
                 sectorsize |-> NodeSize, nodesize |-> NodeSize,
                 stripesize |-> NodeSize, sys_chunk_array_size |-> size,
                 csum_type |-> CRC32,
                 dev_item |-> [devid |-> devid, fsid |-> devfsid],
                 sys_chunk_array |-> recs]
    IN CASE flaw = "none" -> SealedSb(good)
         [] flaw = "magic" -> SealedSb([good EXCEPT !.magic = <<0, 0, 0, 0, 0, 0, 0, 0>>])
         [] flaw = "csum" -> [good EXCEPT !.csum = (csum_data_crc32(SbBody(good)) + 1)
                                                      % DigestWidth]
         [] flaw = "xxhash" -> SealedSb([good EXCEPT !.csum_type = XXHASH])
         [] flaw = "sha256" -> SealedSb([good EXCEPT !.csum_type = SHA256])
         [] flaw = "blake2" -> SealedSb([good EXCEPT !.csum_type = BLAKE2])
         [] flaw = "total_bytes" -> SealedSb([good EXCEPT !.total_bytes = 0])
         [] flaw = "num_devices" -> SealedSb([good EXCEPT !.num_devices = 0])
         [] flaw = "sectorsize" -> SealedSb([good EXCEPT !.sectorsize = 0])
         [] flaw = "nodesize" -> SealedSb([good EXCEPT !.nodesize = 0])
         [] flaw = "stripesize" -> SealedSb([good EXCEPT !.stripesize = 0])

\* the most stripes of a record that fits the array alone
MaxFit == (BTRFS_SYSTEM_CHUNK_ARRAY_SIZE - RecordLen(1)) \div SizeofStripe + 1
StripeCounts == {1, 2, MaxFit, MaxFit + 1}

RecordChoices ==
    {ChunkInfo(DiskKey(BTRFS_FIRST_CHUNK_TREE_OBJECTID, CHUNK_ITEM, off), NodeSize, n) :
        n \in StripeCounts, off \in {ChunkRoot, ChunkRoot + NodeSize}}

\* the records written to an array: each starts inside the array
ArrayChoices ==
    {recs \in UNION {[1..n -> RecordChoices] : n \in 0..MaxRecords} :
        \A i \in 1..Len(recs) : RecordStart(recs, i) < BTRFS_SYSTEM_CHUNK_ARRAY_SIZE}

\* sys_chunk_array_size: nothing, the end of a record, a place inside one, one
\* record of zero bytes more than was written, or the whole array
SizeChoices(recs) ==
    {sz \in {0, SizeofDiskKey, BTRFS_SYSTEM_CHUNK_ARRAY_SIZE}
            \cup {RecordStart(recs, i + 1) : i \in 1..Len(recs)}
            \cup {RecordStart(recs, i + 1) - SizeofStripe : i \in 1..Len(recs)}
            \cup {RecordStart(recs, Len(recs) + 1) + RecordLen(0)} :
        sz <= BTRFS_SYSTEM_CHUNK_ARRAY_SIZE}

StandardArray ==
    <<ChunkInfo(DiskKey(BTRFS_FIRST_CHUNK_TREE_OBJECTID, CHUNK_ITEM, ChunkRoot), NodeSize, 1)>>

\* a device file long enough for `copies` copies of the superblock
DeviceFile(copies, sbs) == [copies |-> copies, sbs |-> sbs]

InitSb ==
    /\ \E copies \in 0..BTRFS_SUPER_MIRROR_MAX,
          gens \in [1..BTRFS_SUPER_MIRROR_MAX -> 1..MaxGen],
          flaw \in SbFlaws, recs \in ArrayChoices :
        \E size \in SizeChoices(recs) :
            /\ \/ recs = StandardArray /\ size = RecordLen(1)
               \/ copies = 1 /\ flaw = "none"
            /\ paths = <<DeviceFile(copies,
                            [k \in 1..copies |->
                                Superblock(FsId, FsId, 1, 1, gens[k], recs, size,
                                           IF k = 1 THEN flaw ELSE "none")])>>
    /\ sbret = NotCalled /\ sci = None /\ dumpret = NotCalled
    /\ fs = None /\ disk = None
    /\ NoIter /\ NoAddr /\ NoFile /\ NoKeys /\ NoRepair

\* load_sb(path)
CallLoadSb ==
    /\ sbret = NotCalled /\ sci = None
    /\ sbret' = load_sb(paths[1])
    /\ UNCHANGED <<fs, disk, iterVars, lvb, votp, lv, paths, sci, dumpret, fileVars, keyVars, repairVars>>

\* SysChunkIter::new(&sb) for the primary superblock of the device
CallNewSysChunkIter ==
    /\ sbret = NotCalled /\ sci = None
    /\ paths[1].copies >= 1
    /\ sci' = [it |-> NewSysChunkIter(paths[1].sbs[1]), yielded |-> <<>>,
               ret |-> NotCalled]
    /\ UNCHANGED <<fs, disk, iterVars, lvb, votp, lv, paths, sbret, dumpret, fileVars, keyVars, repairVars>>

\* one call of next() on the SysChunkIter, as a for loop makes them
CallSysChunkNext ==
    /\ sci # None
    /\ sci.ret.kind \notin {"none", "panic"}
    /\ sci' = [it |-> SysChunkNext(sci.it).it,
               yielded |-> IF SysChunkNext(sci.it).ret.kind = "some"
                           THEN Append(sci.yielded, SysChunkNext(sci.it).ret.val)
                           ELSE sci.yielded,
               ret |-> SysChunkNext(sci.it).ret]
    /\ UNCHANGED <<fs, disk, iterVars, lvb, votp, lv, paths, sbret, dumpret, fileVars, keyVars, repairVars>>

NextSb == CallLoadSb \/ CallNewSysChunkIter \/ CallSysChunkNext

SpecSb == InitSb /\ [][NextSb]_vars

(***************************************************************************)
(* SpecLoad: dump is called on up to MaxPaths device files, superblocks of *)
(* one filesystem or of two.                                               *)
(***************************************************************************)
PathChoices ==
    {[fsid |-> f, devfsid |-> g, num_devices |-> n, flaw |-> w] :
        f \in {FsId, FsId + 1}, g \in {FsId, FsId + 1}, n \in {1, 2},
        w \in {"none", "magic"}}

InitLoad ==
    /\ \E n \in 0..MaxPaths :
        \E c \in [1..n -> PathChoices] :
            paths = [k \in 1..n |->
                        DeviceFile(1, <<Superblock(c[k].fsid, c[k].devfsid, k,
                                                   c[k].num_devices, 1, StandardArray,
                                                   RecordLen(1), c[k].flaw)>>)]
    /\ sbret = NotCalled /\ sci = None /\ dumpret = NotCalled
    /\ fs = None /\ disk = None
    /\ NoIter /\ NoAddr /\ NoFile /\ NoKeys /\ NoRepair

\* dump(paths)
CallDump ==
    /\ dumpret = NotCalled
    /\ dumpret' = dump(paths)
    /\ UNCHANGED <<fs, disk, iterVars, lvb, votp, lv, paths, sbret, sci, fileVars, keyVars, repairVars>>

NextLoad == CallDump

SpecLoad == InitLoad /\ [][NextLoad]_vars

(***************************************************************************)
(* Loader claims                                                           *)
(***************************************************************************)
\* a copy of the superblock passes the magic and checksum validation
ValidCopy(sb) ==
    /\ sb.magic = BTRFS_MAGIC
    /\ sb.csum_type = CRC32
    /\ sb.csum = csum_data_crc32(SbBody(sb))

NonzeroFields(sb) ==
    /\ sb.total_bytes # 0 /\ sb.num_devices # 0 /\ sb.sectorsize # 0
    /\ sb.nodesize # 0 /\ sb.stripesize # 0

SbCalled == sbret # NotCalled

\* C14: the superblock that load_sb returns has the greatest generation among
\* the copies on the device (primary and mirrors) that pass validation
C14_ReturnsFreshestValidCopy ==
    (SbCalled /\ sbret.kind = "ok") =>
        \A k \in 1..paths[1].copies :
            ValidCopy(paths[1].sbs[k]) =>
                paths[1].sbs[k].generation <= sbret.sb.generation

\* C15: load_sb returns a superblock only if its magic and checksum are right
\* and total_bytes, num_devices, sectorsize, nodesize and stripesize are not 0
C15_AcceptedSuperblockIsValid ==
    (SbCalled /\ sbret.kind = "ok") =>
        /\ sbret.sb.magic = BTRFS_MAGIC
        /\ sbret.sb.csum = csum_data_crc32(SbBody(sbret.sb))
        /\ NonzeroFields(sbret.sb)

DumpCalled == dumpret # NotCalled

\* the primary superblock of path k
SbOf(k) == paths[k].sbs[1]

\* the superblocks of the paths are of one filesystem
Agree ==
    \A j \in 1..Len(paths), k \in 1..Len(paths) :
        /\ SbOf(j).fsid = SbOf(k).fsid
        /\ SbOf(j).dev_item.fsid = SbOf(k).fsid
        /\ SbOf(j).num_devices = SbOf(k).num_devices

\* C16: dump builds a handle only when the superblocks of all paths have the
\* fsid of the handle, in the superblock and in its dev_item, and one
\* num_devices; when all superblocks load and they disagree, dump aborts
C16_HandleOnlyForOneFilesystem ==
    DumpCalled =>
        /\ dumpret.kind = "ok" =>
              /\ Agree
              /\ \A k \in 1..Len(paths) :
                    /\ SbOf(k).fsid = dumpret.fs.fsid
                    /\ SbOf(k).dev_item.fsid = dumpret.fs.fsid
                    /\ SbOf(k).num_devices = dumpret.fs.master_sb.num_devices
        /\ ((\A k \in 1..Len(paths) : load_sb(paths[k]).kind = "ok") /\ ~Agree) =>
              dumpret.kind = "panic"

\* a handle for several devices of one filesystem
C16_Witness ==
    /\ DumpCalled /\ dumpret.kind = "ok"
    /\ Len(paths) >= 2
    /\ Cardinality(dumpret.fs.devid_map) = Len(paths)

\* the last device has the fsid of the others in its superblock, but not in
\* its dev_item, and dump aborted
C16_WitnessAbort ==
    /\ DumpCalled /\ dumpret.kind = "panic"
    /\ Len(paths) >= 2
    /\ \A k \in 1..Len(paths) : load_sb(paths[k]).kind = "ok"
    /\ \A k \in 1..Len(paths) : SbOf(k).fsid = SbOf(1).fsid
    /\ \A k \in 1..Len(paths) : SbOf(k).num_devices = SbOf(1).num_devices
    /\ \A k \in 1..(Len(paths) - 1) : SbOf(k).dev_item.fsid = SbOf(1).fsid
    /\ SbOf(Len(paths)).dev_item.fsid # SbOf(1).fsid

SciDone == sci # None /\ sci.ret.kind \in {"none", "panic"}

\* C17: with sys_chunk_array_size 0 the iterator ends at once without a chunk
\* and load_sb returns the superblock
C17_EmptyArrayLoads ==
    /\ (SciDone /\ sci.it.size = 0) => (sci.ret.kind = "none" /\ sci.yielded = <<>>)
    /\ (SbCalled /\ paths[1].copies >= 1 /\ ValidCopy(SbOf(1))
            /\ SbOf(1).sys_chunk_array_size = 0) => sbret.kind = "ok"

RECURSIVE EndsOnRecord(_, _, _)
\* size is the end of a record of the array that lies in the array, following
\* the records from byte pos
EndsOnRecord(recs, pos, size) ==
    IF pos >= size THEN pos = size
    ELSE IF pos + RecordLen(RecordAt(recs, pos).chunk.num_stripes)
                > BTRFS_SYSTEM_CHUNK_ARRAY_SIZE
    THEN FALSE
    ELSE EndsOnRecord(recs, pos + RecordLen(RecordAt(recs, pos).chunk.num_stripes), size)

\* C18: when sys_chunk_array_size is inside a record, or the record it is in
\* does not end in the array, the iteration ends with an abort, not with None
C18_MidRecordSizeFails ==
    (SciDone /\ sci.it.size > 0 /\ ~EndsOnRecord(sci.it.array, 0, sci.it.size)) =>
        sci.ret.kind = "panic"

(***************************************************************************)
(* SpecFile: typed and indexed access of a MappedFile (mapped_file.rs).     *)
(* self.len - size_of::<T>() is a subtraction of usize values: when the     *)
(* file is shorter than T it panics in a build with overflow checks and    *)
(* wraps to a value near 2^64 in a build without, which no offset of the   *)
(* model reaches.                                                          *)
(***************************************************************************)
MaxFileLen == 10     \* bytes of a mapped file
SizeofUsize == 8
TypeSizes == {1, 2, 4, 8}      \* size_of::<T>() for u8, u16, u32, u64

\* a reference to `size` bytes at `offset` of the mapping
Reference(offset, size) == [kind |-> "ok", off |-> offset, len |-> size]

\* the test `self.len - size <= offset` and what follows it
BeyondEnd(len, size, offset, overflow_checks) ==
    IF len < size
    THEN IF overflow_checks THEN Panic("attempt to subtract with overflow")
         ELSE Reference(offset, size)
    ELSE IF len - size <= offset THEN Panic("access beyond end of file")
    ELSE Reference(offset, size)

\* MappedFile::at::<T>(offset), size being size_of::<T>()
at(f, offset, size, overflow_checks) == BeyondEnd(f.len, size, offset, overflow_checks)

\* MappedFile::index(idx): a reference to the byte at idx
index(f, idx, overflow_checks) ==
    IF BeyondEnd(f.len, SizeofUsize, idx, overflow_checks).kind = "panic"
    THEN BeyondEnd(f.len, SizeofUsize, idx, overflow_checks)
    ELSE Reference(idx, 1)

InitFile ==
    /\ \E n \in 1..MaxFileLen : file = [len |-> n]
    /\ access = NotCalled
    /\ fs = None /\ disk = None
    /\ NoIter /\ NoAddr /\ NoLoader /\ NoKeys /\ NoRepair

\* mf.at::<T>(offset) for an offset up to one past the end of the file
CallAt ==
    /\ \E offset \in 0..(file.len + 1), size \in TypeSizes, overflow_checks \in BOOLEAN :
        access' = [kind |-> "at", offset |-> offset, size |-> size,
                   res |-> at(file, offset, size, overflow_checks)]
    /\ UNCHANGED <<fs, disk, iterVars, lvb, votp, lv, loadVars, file, keyVars, repairVars>>

\* mf[idx] for an idx up to one past the end of the file
CallIndex ==
    /\ \E idx \in 0..(file.len + 1), overflow_checks \in BOOLEAN :
        access' = [kind |-> "index", offset |-> idx, size |-> 1,
                   res |-> index(file, idx, overflow_checks)]
    /\ UNCHANGED <<fs, disk, iterVars, lvb, votp, lv, loadVars, file, keyVars, repairVars>>

NextFile == CallAt \/ CallIndex

SpecFile == InitFile /\ [][NextFile]_vars

\* C19: an access whose bytes all lie in the file returns the reference to
\* them, and an access at or beyond the end of the file panics
C19_AccessIsBoundsExact ==
    access # NotCalled =>
        /\ access.offset + access.size <= file.len =>
              access.res = Reference(access.offset, access.size)
        /\ access.offset >= file.len => access.res.kind = "panic"

\* C20: making the iterator with min_key <= max_key loads nothing and gives an
\* iterator, and a call of next() that needs a block that cannot be mapped
\* (the root, a child on the way down, a child when the range goes on)
\* returns None: no call ends in an error or a panic
C20_UnmappableBlockEndsIteration ==
    /\ NewTreeIter(iter.root, iter.options).kind = "ok"
    /\ (ret # NotCalled /\ ~AllLoadable) => ret.kind \in {"some", "none"}

\* C21: a superblock whose csum_type is not CRC32 is never returned by
\* load_sb, and when its magic is right, so that its checksum is computed,
\* load_sb aborts
C21_UnsupportedChecksumAborts ==
    (SbCalled /\ paths[1].copies >= 1 /\ SbOf(1).csum_type # CRC32) =>
        /\ sbret.kind # "ok"
        /\ SbOf(1).magic = BTRFS_MAGIC => sbret.kind = "panic"

\* load_sb aborted on a BLAKE2 superblock whose stored checksum is the crc32
\* of its bytes
C21_Witness ==
    /\ SbCalled /\ sbret.kind = "panic"
    /\ SbOf(1).csum_type = BLAKE2
    /\ SbOf(1).csum = csum_data_crc32(SbBody(SbOf(1)))

(***************************************************************************)
(* Re-ascent, termination and path claims.  The leaves of an iterated tree *)
(* lie at consecutive addresses in key order.                              *)
(***************************************************************************)
\* the block of the iterated tree at virtual address a
TreeBlockAtAddr(a) == CHOOSE b \in TreeBlocksOnDisk : b.bytenr = a

LastLeafAddr == CHOOSE a \in {b.bytenr : b \in TreeBlocksOnDisk} :
                    \A b \in TreeBlocksOnDisk : b.bytenr <= a

\* items i and i + 1 were yielded from two leaves
LeafChange(i) == yielded[i].block_offset # yielded[i + 1].block_offset

\* C22: when the items of consecutive calls come from two leaves, the first is
\* the last item of its leaf, the second is the first item of the very next
\* leaf of the tree, and after the last item of the last leaf next() returns
\* None with an empty stack
C22_NextLeafIsTheSuccessor ==
    AllLoadable =>
        /\ \A i \in 1..(Len(yielded) - 1) :
              LeafChange(i) =>
                  /\ yielded[i + 1].block_offset = yielded[i].block_offset + NodeSize
                  /\ yielded[i].index = TreeBlockAtAddr(yielded[i].block_offset).nritems - 1
                  /\ yielded[i + 1].index = 0
        /\ (/\ Len(yielded) > 0 /\ calls > Len(yielded)
            /\ Last(yielded).block_offset = LastLeafAddr
            /\ Last(yielded).index = TreeBlockAtAddr(LastLeafAddr).nritems - 1) =>
              (ret.kind = "none" /\ iter.internal_node_stack = <<>>)

\* under a root of level 2, two consecutive items came from leaves that have
\* no parent in common: the re-ascent went up to the root
C22_Witness ==
    /\ AllLoadable /\ disk[1][TreePhysStart].level = 2
    /\ \E i \in 1..(Len(yielded) - 1) :
          /\ LeafChange(i)
          /\ ~\E b \in TreeBlocksOnDisk :
                /\ b.level = 1
                /\ \E e1, e2 \in 1..b.nritems :
                      /\ b.entries[e1].blockptr = yielded[i].block_offset
                      /\ b.entries[e2].blockptr = yielded[i + 1].block_offset

\* entry c of the internal node block b is the one find_key is to go down
\* through: the last key <= min_key, or the first entry when the first key is
\* above min_key and not above max_key
ChosenChild(b, c, opts) ==
    /\ c >= 1 /\ c <= b.nritems
    /\ IF KeyLess(opts.min_key, b.entries[1].key)
       THEN c = 1 /\ ~KeyLess(opts.max_key, b.entries[1].key)
       ELSE /\ ~KeyLess(opts.min_key, b.entries[c].key)
            /\ c < b.nritems => KeyLess(opts.min_key, b.entries[c + 1].key)

RootBlock == disk[1][TreePhysStart]

\* C23: after the first call of next() the stack holds the internal nodes
\* that find_key visited, each with its cursor just past the child it went
\* down through, and that child is the last entry with key <= min_key, or the
\* first entry when the first key is above min_key; when the first key of the
\* root is above max_key the call yields nothing
C23_DescendsThroughLastKeyNotAboveMin ==
    (AllLoadable /\ calls = 1) =>
        /\ \A k \in 1..Len(iter.internal_node_stack) :
              ChosenChild(header(iter.internal_node_stack[k]),
                          iter.internal_node_stack[k].cur_item, iter.options)
        /\ (/\ RootBlock.level > 0 /\ RootBlock.nritems > 0
            /\ ~KeyLess(iter.options.max_key, RootBlock.entries[1].key)) =>
              Len(iter.internal_node_stack) = RootBlock.level
        /\ (/\ RootBlock.level > 0 /\ RootBlock.nritems > 0
            /\ KeyLess(iter.options.max_key, RootBlock.entries[1].key)) =>
              (ret.kind = "none" /\ yielded = <<>> /\ iter.internal_node_stack = <<>>)

\* find_key went down two levels, at one of them through an entry that is
\* neither the first nor the last of its node
C23_Witness ==
    /\ AllLoadable /\ calls = 1 /\ ret.kind = "some"
    /\ Len(iter.internal_node_stack) = 2
    /\ \E k \in 1..2 :
          /\ iter.internal_node_stack[k].cur_item >= 2
          /\ iter.internal_node_stack[k].cur_item
                < header(iter.internal_node_stack[k]).nritems

\* the first key of the root is above min_key and not above max_key, and
\* find_key went down through the first entries
C23_WitnessFirstKeyAbove ==
    /\ AllLoadable /\ calls = 1 /\ ret.kind = "some"
    /\ Len(iter.internal_node_stack) = 2
    /\ KeyLess(iter.options.min_key, RootBlock.entries[1].key)
    /\ \A k \in 1..2 : iter.internal_node_stack[k].cur_item = 1

\* a block on a device is a node of the chunk tree
ChunkTreeNode(b) ==
    \/ b.level > 0
    \/ \E e \in 1..b.nritems : b.entries[e].data.dtype \in {"chunk", "dev_item"}

\* every block of the chunk tree lies inside some bootstrap chunk
ChunkTreeInBootstrap ==
    \A d \in DOMAIN disk : \A o \in DOMAIN disk[d] :
        ChunkTreeNode(disk[d][o]) => BootstrapCovering(disk[d][o].bytenr) # {}

\* C24: when the bootstrap chunks hold every block of the chunk tree,
\* load_virt_block ends for every aligned address with a slice or an error,
\* the search of the chunk tree never needing the chunk tree again
C24_LoadEndsWithSliceOrError ==
    (LvbCalled /\ ChunkTreeInBootstrap) => lvb.res.kind \in {"ok", "err"}

\* C25: on a tree whose blocks are all loadable, whatever the nritems of its
\* nodes, every call of next() returns, and next() has returned None once
\* more calls were made than the tree has items
C25_EveryCallReturns ==
    AllLoadable =>
        /\ ret.kind \in {"not_called", "some", "none"}
        /\ calls > Cardinality(LeafItemsOnDisk) => ret.kind = "none"

\* C26: once next() has returned None, every later call returns None too,
\* whatever made the iteration end
C26_NoneIsFinal ==
    [][ret.kind = "none" => ret'.kind = "none"]_vars

\* the stack is the path from the root to the current leaf, which is the
\* block at leaf_addr: one node per level from the root's down to 1, the root
\* at the bottom, each with its cursor just past the pointer to the node above
\* it on the stack, the top one just past the pointer to the leaf
StackIsPathTo(leaf_addr) ==
    LET st == iter.internal_node_stack
    IN /\ IF st = <<>> THEN leaf_addr = iter.root ELSE st[1].block_offset = iter.root
       /\ iter.cur_leaf_node.kind = "some"
       /\ iter.cur_leaf_node.val.block_offset = leaf_addr
       /\ header(iter.cur_leaf_node.val).level = 0
       /\ \A k \in 1..Len(st) :
             /\ header(st[k]).level = Len(st) - k + 1
             /\ st[k].cur_item >= 1
             /\ st[k].cur_item <= header(st[k]).nritems
             /\ header(st[k]).entries[st[k].cur_item].blockptr =
                    IF k < Len(st) THEN st[k + 1].block_offset ELSE leaf_addr

\* C27: whenever next() returns an item, internal_node_stack is the path from
\* the root to the leaf that holds the item: as long as the level of the block
\* read as the root, root at the bottom, every cursor just past the child that
\* was descended into
C27_StackIsThePathToTheItem ==
    ret.kind = "some" => StackIsPathTo(ret.val.block_offset)

\* an item of the third leaf under a root of level 2 was returned, after the
\* stack was popped and rebuilt at a change of leaf
C27_Witness ==
    /\ AllLoadable /\ ret.kind = "some" /\ RootBlock.level = 2
    /\ Len(yielded) >= 2
    /\ \E i \in 1..(Len(yielded) - 1) : LeafChange(i)
    /\ ret.val.block_offset >= TreeBlockAtAddr(iter.root).entries[1].blockptr
    /\ iter.internal_node_stack[1].cur_item >= 2

RECURSIVE Replay(_, _, _, _)
\* what k calls of next() on the iterator it yield, added to out, and what
\* the last of them returns; no call follows one that did not return
ReplayStep(step, k, out) ==
    IF step.ret.kind \in Aborts THEN [yielded |-> out, ret |-> step.ret]
    ELSE Replay(step.it, k - 1,
                IF step.ret.kind = "some" THEN Append(out, step.ret.val) ELSE out,
                step.ret)

Replay(it, k, out, last) ==
    IF k = 0 THEN [yielded |-> out, ret |-> last]
    ELSE ReplayStep(TreeNext(fs, it, 1), k, out)

\* a new iterator over the same tree, root and keys with another match policy
WithPolicy(min_match, max_match) ==
    NewTreeIter(iter.root, [iter.options EXCEPT !.min_match = min_match,
                                               !.max_match = max_match]).it

\* another policy value; applied to one of min_match and max_match at a time
\* it leads from any pair of policies to every other
OtherOrdering(o) ==
    CASE o = "Less" -> "Equal" [] o = "Equal" -> "Greater" [] OTHER -> "Less"

MaxOid == 1        \* largest objectid of a compared key
MaxKeyOffset == 1  \* largest offset of a compared key

\* item types that are on disk, and the two tags for searches
RealItemTypes == {INODE_ITEM, ROOT_ITEM, DEV_ITEM, CHUNK_ITEM}
ItemTypes == {MIN, MAX} \cup RealItemTypes

KeySet ==
    {DiskKey(oid, ty, off) : oid \in 0..MaxOid, ty \in ItemTypes, off \in 0..MaxKeyOffset}

InitKey ==
    /\ \E a \in KeySet, b \in KeySet, c \in KeySet : keys = <<a, b, c>>
    /\ ord = NotCalled
    /\ fs = None /\ disk = None
    /\ NoIter /\ NoAddr /\ NoLoader /\ NoFile /\ NoRepair

\* cmp_key is called on the pairs of the three keys
CallCmpKey ==
    /\ ord = NotCalled
    /\ ord' = [kind |-> "called",
               ab |-> cmp_key(keys[1], keys[2]), ba |-> cmp_key(keys[2], keys[1]),
               bc |-> cmp_key(keys[2], keys[3]), ac |-> cmp_key(keys[1], keys[3])]
    /\ UNCHANGED <<fs, disk, iterVars, lvb, votp, lv, loadVars, fileVars, keys,
                   repairVars>>

NextKey == CallCmpKey

SpecKey == InitKey /\ [][NextKey]_vars

\* the fields of a key in the order of their weight, the item type as a number
KeyTuple(k) == <<k.objectid, k.item_type, k.offset>>

\* x is before y in the lexicographic order of tuples of numbers
LexLess(x, y) ==
    \E i \in 1..Len(x) :
        /\ x[i] < y[i]
        /\ \A j \in 1..(i - 1) : x[j] = y[j]

Lexicographic(x, y) ==
    IF LexLess(x, y) THEN "Less" ELSE IF LexLess(y, x) THEN "Greater" ELSE "Equal"

\* C29: cmp_key is the lexicographic order on (objectid, item type as a
\* number, offset): Equal exactly for equal keys, Less one way exactly when
\* Greater the other way, transitive, and with MIN below and MAX above every
\* real item type of the same objectid
C29_CmpKeyIsLexicographic ==
    ord.kind = "called" =>
        LET a == keys[1]
            b == keys[2]
            c == keys[3]
        IN /\ ord.ab = Lexicographic(KeyTuple(a), KeyTuple(b))
           /\ ord.ab = "Equal" <=> a = b
           /\ ord.ab = "Less" <=> ord.ba = "Greater"
           /\ (ord.ab = "Less" /\ ord.bc = "Less") => ord.ac = "Less"
           /\ (ord.ab # "Greater" /\ ord.bc # "Greater") => ord.ac # "Greater"
           /\ (/\ a.objectid = b.objectid /\ a.item_type = MIN
               /\ b.item_type \in RealItemTypes) => ord.ab = "Less"
           /\ (/\ a.objectid = b.objectid /\ a.item_type = MAX
               /\ b.item_type \in RealItemTypes) => ord.ab = "Greater"

\* the search tag MAX with the smaller offset against a real item type with
\* the larger offset under one objectid, and a third key above both
C29_Witness ==
    /\ ord.kind = "called"
    /\ keys[1].objectid = keys[2].objectid
    /\ keys[1].item_type = CHUNK_ITEM /\ keys[2].item_type = MAX
    /\ keys[1].offset > keys[2].offset
    /\ ord.ab = "Less" /\ ord.bc = "Less" /\ ord.ac = "Less"

(***************************************************************************)
(* SpecRepair: main of examples/bitflip.rs from the load of the corrupt    *)
(* block on.  A block is BlockLen bytes: its checksum, its owner, the byte *)
(* of the key offset that holds the flipped bit, and item data.  What      *)
(* load_virt_block and virtual_offset_to_physical return, and what the     *)
(* device files hold held the locations, are inputs.                         *)
(***************************************************************************)
BlockLen == 4       \* bytes of a block in the repair
MaxLocations == 2   \* physical locations of the corrupt block
BTRFS_EXTENT_TREE_OBJECTID == 2
BTRFS_CHUNK_TREE_OBJECTID == 3

Ok == [kind |-> "ok"]

\* the blocks that load_virt_block may hand to main
RepairBlocks ==
    {<<0, owner, bit>> \o data :
        owner \in {BTRFS_EXTENT_TREE_OBJECTID, BTRFS_CHUNK_TREE_OBJECTID},
        bit \in {0, 1},
        data \in [1..(BlockLen - 3) -> {0, 1}]}

\* a device file from a location on: unreadable, or the bytes up to the end
\* of the file, which are the block or differ from it in the last byte
Unreadable == [kind |-> "unreadable"]
LocationChoices(block) ==
    {Unreadable} \cup
    {[kind |-> "bytes", bytes |-> SubSeq(b, 1, n)] :
        b \in {block, [block EXCEPT ![Len(block)] = 1 - @]}, n \in 0..Len(block)}

\* fix_block: the owner is asserted, the flipped bit is cleared, the checksum
\* of the bytes after the checksum field is stored
FixChecksum(data, csum) ==
    IF csum.kind = "ok" THEN [kind |-> "ok", data |-> [data EXCEPT ![1] = csum.csum]]
    ELSE csum

fix_block(csum_type, data) ==
    IF data[2] # BTRFS_EXTENT_TREE_OBJECTID THEN Panic("assert_eq!(owner, ...)")
    ELSE FixChecksum([data EXCEPT ![3] = 0],
                     csum_data_typed(SubSeq([data EXCEPT ![3] = 0], 2, Len(data)),
                                     csum_type))

\* `file.read(&mut phys_data)?` on a buffer of zeros: the bytes the file has
\* from the offset on replace the first bytes of the buffer
ReadInto(len, bytes) ==
    [k \in 1..len |-> IF k <= Len(bytes) THEN bytes[k] ELSE 0]

RECURSIVE check_physical_locations_match(_, _, _, _)
\* check_physical_locations_match, from location i on; held[l] is what the file
\* of location l holds from its offset on
check_physical_locations_match(held, physical_locations, corrupt_data, i) ==
    IF i > Len(physical_locations) THEN Ok
    ELSE IF held[physical_locations[i]].kind = "unreadable" THEN Err("io")
    ELSE IF corrupt_data # ReadInto(Len(corrupt_data), held[physical_locations[i]].bytes)
    THEN Panic("assert_eq!(*corrupt_data, phys_data)")
    ELSE check_physical_locations_match(held, physical_locations, corrupt_data, i + 1)

\* write_block_to_physical
write_block_to_physical(data, physical_locations) == Err("TODO")

Ended(r, result) == [r EXCEPT !.pc = "done", !.result = result]

InitRepair ==
    /\ \E block \in RepairBlocks, csum_type \in {CRC32, XXHASH}, n \in 0..MaxLocations,
          lvb_ok \in BOOLEAN, votp_ok \in BOOLEAN :
          \E held \in [1..n -> LocationChoices(block)] :
              \* the first location is where load_virt_block read the block
              /\ n >= 1 => held[1] \in {Unreadable, [kind |-> "bytes", bytes |-> block]}
              /\ media = [lvb |-> IF lvb_ok THEN [kind |-> "ok", block |-> block]
                               ELSE Err("load_virt_block"),
                       votp |-> IF votp_ok THEN [kind |-> "ok", locations |-> [l \in 1..n |-> l]]
                                ELSE Err("virtual_offset_to_physical"),
                       csum_type |-> csum_type,
                       held |-> held,
                       files |-> [backup |-> None, fixed |-> None],
                       write_calls |-> 0]
    /\ repair = [pc |-> "load", corrupt_vec |-> None, fixed_vec |-> None,
                 physical_locations |-> None, result |-> NotCalled]
    /\ fs = None /\ disk = None
    /\ NoIter /\ NoAddr /\ NoLoader /\ NoFile /\ NoKeys

othersRepair == <<fs, disk, iterVars, lvb, votp, lv, loadVars, fileVars, keyVars>>

\* let corrupt_block = load_virt_block(&fs, corrupt_offset)?; corrupt_vec
LoadCorruptBlock ==
    /\ repair.pc = "load"
    /\ repair' = IF media.lvb.kind = "ok"
                 THEN [repair EXCEPT !.pc = "backup", !.corrupt_vec = media.lvb.block]
                 ELSE Ended(repair, media.lvb)
    /\ UNCHANGED <<media, othersRepair>>

\* write_block_to_file(&corrupt_vec, backup_filename)?, which can fail
WriteBackup ==
    /\ repair.pc = "backup"
    /\ \E ok \in BOOLEAN :
          IF ok
          THEN /\ media' = [media EXCEPT !.files.backup = SomeOf(repair.corrupt_vec)]
               /\ repair' = [repair EXCEPT !.pc = "fix"]
          ELSE /\ media' = media
               /\ repair' = Ended(repair, Err("io"))
    /\ UNCHANGED othersRepair

\* fixed_vec = corrupt_vec.clone(); fix_block(csum_type, &mut fixed_vec)
FixBlock ==
    /\ repair.pc = "fix"
    /\ LET fixed == fix_block(media.csum_type, repair.corrupt_vec)
       IN repair' = IF fixed.kind = "ok"
                    THEN [repair EXCEPT !.pc = "fixed", !.fixed_vec = fixed.data]
                    ELSE Ended(repair, fixed)
    /\ UNCHANGED <<media, othersRepair>>

\* write_block_to_file(&fixed_vec, fixed_filename)?, which can fail
WriteFixed ==
    /\ repair.pc = "fixed"
    /\ \E ok \in BOOLEAN :
          IF ok
          THEN /\ media' = [media EXCEPT !.files.fixed = SomeOf(repair.fixed_vec)]
               /\ repair' = [repair EXCEPT !.pc = "locate"]
          ELSE /\ media' = media
               /\ repair' = Ended(repair, Err("io"))
    /\ UNCHANGED othersRepair

\* physical_locations = virtual_offset_to_physical(&fs, corrupt_offset)?
FindPhysical ==
    /\ repair.pc = "locate"
    /\ repair' = IF media.votp.kind = "ok"
                 THEN [repair EXCEPT !.pc = "check",
                                     !.physical_locations = media.votp.locations]
                 ELSE Ended(repair, media.votp)
    /\ UNCHANGED <<media, othersRepair>>

\* check_physical_locations_match(&physical_locations, &corrupt_vec)?
CheckPhysical ==
    /\ repair.pc = "check"
    /\ LET checked == check_physical_locations_match(media.held, repair.physical_locations,
                                                     repair.corrupt_vec, 1)
       IN repair' = IF checked.kind = "ok" THEN [repair EXCEPT !.pc = "write"]
                    ELSE Ended(repair, checked)
    /\ UNCHANGED <<media, othersRepair>>

\* write_block_to_physical(&fixed_vec, &physical_locations)?
WriteToPhysical ==
    /\ repair.pc = "write"
    /\ media' = [media EXCEPT !.write_calls = @ + 1]
    /\ LET written == write_block_to_physical(repair.fixed_vec, repair.physical_locations)
       IN repair' = Ended(repair, IF written.kind = "ok" THEN Ok ELSE written)
    /\ UNCHANGED othersRepair

NextRepair ==
    \/ LoadCorruptBlock
    \/ WriteBackup
    \/ FixBlock
    \/ WriteFixed
    \/ FindPhysical
    \/ CheckPhysical
    \/ WriteToPhysical

SpecRepair == InitRepair /\ [][NextRepair]_vars

\* write_block_to_physical was invoked
WriteInvoked == repair # None /\ media.write_calls > 0

\* the file of location l holds the bytes of the original block
HoldsOriginal(l) ==
    media.held[l].kind = "bytes" /\ media.held[l].bytes = repair.corrupt_vec

\* C30: write_block_to_physical is invoked only after the backup file and the
\* fixed-block file were written and every physical location that
\* virtual_offset_to_physical returned holds the bytes of the original block
C30_WriteOnlyAfterBackupAndCheck ==
    WriteInvoked =>
        /\ media.files.backup = SomeOf(repair.corrupt_vec)
        /\ media.files.fixed = SomeOf(repair.fixed_vec)
        /\ media.votp.kind = "ok"
        /\ \A l \in 1..Len(media.votp.locations) : HoldsOriginal(media.votp.locations[l])

====
